---- MODULE Spec2Model ----
(***************************************************************************)
(* Capture pipeline of the meeting-translator extension:                   *)
(*   VideoDetector -> AudioExtractor -> SpeechProcessor, composed by       *)
(*   VideoToTextProcessor (the orchestrator).                              *)
(*                                                                         *)
(* Every handler of the code is a function from program state to program   *)
(* state (a record `s` holding one record per component), so that a        *)
(* handler that synchronously calls into another component, or into a      *)
(* listener registered by another component, is the composition of the     *)
(* functions.  An action of the model is one macrotask of the event loop:  *)
(* a timer callback, an engine event, a DOM scan or a public call.         *)
(*                                                                         *)
(* The browser's speech engine (SpeechRecognition) is the environment: it  *)
(* follows the Web Speech API life cycle                                   *)
(*   idle -start()-> starting -onstart-> running -stop()-> stopping        *)
(*   starting/running -onerror-> failing,  running/stopping/failing        *)
(*   -onend-> idle,  and start() throws InvalidStateError unless idle.     *)
(*                                                                         *)
(* Confidence values are percentages (0.6 is 60).  Time is counted in      *)
(* ticks of POLL_INTERVAL ms; a timer holds the ticks left until it fires. *)
(***************************************************************************)
EXTENDS Integers, Sequences, FiniteSets, Bags, TLC

VARIABLES speech, engine, timers, orch, extractor, detector, dom, ui, script, env,
          out

vars == <<speech, engine, timers, orch, extractor, detector, dom, ui, script, env,
          out>>

-----------------------------------------------------------------------------
(* Bounds of the model *)

\* engine result events handled over a run
MaxResults == 2
\* entries in the result list of one engine result event
MaxBatch == 2
\* engine error events over a run
MaxErrors == 1
\* engine start confirmations (session ids generated) over a run
MaxSessions == 2

-----------------------------------------------------------------------------
(* Program constants *)

\* SPEECH_CONFIG.CONFIDENCE_THRESHOLD, 0.6 as a percentage
CONFIDENCE_THRESHOLD == 60
\* confidenceThreshold the content script configures, 0.7 as a percentage
CONTENT_SCRIPT_THRESHOLD == 70
\* setTimeout(checkSession, 50) in startRecognition, ms
POLL_INTERVAL == 50
\* setTimeout(..., 100) in restartRecognition, ms
RESTART_DELAY == 100
\* setTimeout(..., 2000) in scheduleReconnect, ms
RECONNECT_DELAY == 2000

\* currentSession: string | null = null; the null session id
NullSession == 0
\* sessionId: this.currentSession || "unknown"
UnknownSession == -1

Ticks(ms) == ms \div POLL_INTERVAL

\* errors the engine reports (SpeechRecognitionErrorEvent.error); the last one
\* stands for every code the switch of handleRecognitionError does not name
ErrorKinds == {"no-speech", "audio-capture", "not-allowed", "network", "aborted"}

\* raw confidence of a result alternative; -1 is a missing (undefined) value
RawConfidences == {-1, 60, 70}

\* thresholds a caller configures through updateConfig
Thresholds == {CONFIDENCE_THRESHOLD, CONTENT_SCRIPT_THRESHOLD}

\* one entry of event.results: its first alternative's confidence, and isFinal
ResultEntries == [confidence : RawConfidences, isFinal : BOOLEAN]

RECURSIVE SeqsUpTo(_, _)
SeqsUpTo(S, n) ==
  IF n = 0 THEN {<<>>}
  ELSE LET shorter == SeqsUpTo(S, n - 1)
       IN shorter \cup {Append(q, x) : q \in {r \in shorter : Len(r) = n - 1}, x \in S}

\* the entries before the last one of a result list: finals the engine
\* delivered earlier in the session
EarlierEntries == {[confidence |-> 70, isFinal |-> TRUE]}

\* event.results: empty, or some earlier entries and the latest one
Batches ==
  {<<>>} \cup {Append(earlier, latest) :
                 earlier \in SeqsUpTo(EarlierEntries, MaxBatch - 1),
                 latest \in ResultEntries}

-----------------------------------------------------------------------------
(* The program state as one record, and the events a step emits *)

State == [speech |-> speech, engine |-> engine, timers |-> timers,
          orch |-> orch, extractor |-> extractor, detector |-> detector,
          dom |-> dom, ui |-> ui, script |-> script, env |-> env, out |-> out]

\* The state after a macrotask that starts in the current state and ends in t.
\* `out` holds what the macrotask emitted: it starts empty in every macrotask.
Becomes(t) ==
  /\ speech' = t.speech
  /\ engine' = t.engine
  /\ timers' = t.timers
  /\ orch' = t.orch
  /\ extractor' = t.extractor
  /\ detector' = t.detector
  /\ dom' = t.dom
  /\ ui' = t.ui
  /\ script' = t.script
  /\ env' = t.env
  /\ out' = t.out

Begin == [State EXCEPT !.out = <<>>]

Emit(s, who, ev, arg) ==
  [s EXCEPT !.out = Append(@, [who |-> who, ev |-> ev, arg |-> arg])]

SetTimer(s, kind, ms) ==
  [s EXCEPT !.timers = @ (+) SetToBag({[kind |-> kind, rem |-> Ticks(ms)]})]

Count(q, who, ev) ==
  Cardinality({i \in 1..Len(q) : q[i].who = who /\ q[i].ev = ev})

-----------------------------------------------------------------------------
(* The user interface: TranscriptOverlay, ControlPanel, and the listeners    *)
(* that ControlPanel and UIManager register on the orchestrator.  The        *)
(* orchestrator keeps one callback per event name; ui.slots names the        *)
(* component whose callback the slot holds, "none" for an empty slot.        *)

\* TranscriptOverlayConfig.maxEntries
MAX_ENTRIES == 50

\* the events both ControlPanel and UIManager register for
UIEvents == {"transcription", "videoDetected", "statusChange"}

\* TranscriptOverlay.generateId: a time stamp and nine random characters
OverlayGenerateId(s) == s.ui.overlay.nextId

\* removeTranscript: the first child of the list with this data-id goes
removeTranscript(s, id) ==
  LET shown == s.ui.overlay.shown
  IN IF ~s.ui.overlay.element THEN s
     ELSE IF \E i \in 1..Len(shown) : shown[i].id = id
     THEN LET i == CHOOSE i \in 1..Len(shown) :
                     /\ shown[i].id = id
                     /\ \A j \in 1..(i - 1) : shown[j].id # id
          IN [s EXCEPT !.ui.overlay.shown =
                SubSeq(shown, 1, i - 1) \o SubSeq(shown, i + 1, Len(shown))]
     ELSE s

\* renderTranscript: the entry becomes the last child of the list
renderTranscript(s, entry) ==
  IF ~s.ui.overlay.element THEN s
  ELSE [s EXCEPT !.ui.overlay.shown = Append(@, entry)]

\* transcripts.slice(-maxEntries)
LastEntries(q, n) == IF Len(q) > n THEN SubSeq(q, Len(q) - n + 1, Len(q)) ELSE q

\* addFinalTranscript
addFinalTranscript(s, result) ==
  LET s1 == IF s.ui.overlay.currentInterimId # 0
            THEN [removeTranscript(s, s.ui.overlay.currentInterimId)
                    EXCEPT !.ui.overlay.currentInterimId = 0]
            ELSE s
      entry == [id |-> OverlayGenerateId(s1), isFinal |-> TRUE,
                sessionId |-> result.sessionId]
      s2 == [s1 EXCEPT !.ui.overlay.nextId = @ + 1,
                       !.ui.overlay.transcripts =
                          LastEntries(Append(@, entry), MAX_ENTRIES)]
  IN renderTranscript(s2, entry)

\* updateInterimTranscript
updateInterimTranscript(s, result) ==
  LET s1 == IF s.ui.overlay.currentInterimId # 0
            THEN removeTranscript(s, s.ui.overlay.currentInterimId)
            ELSE s
      id == OverlayGenerateId(s1)
      entry == [id |-> id, isFinal |-> FALSE, sessionId |-> result.sessionId]
      s2 == [s1 EXCEPT !.ui.overlay.nextId = @ + 1,
                       !.ui.overlay.currentInterimId = id]
  IN renderTranscript(s2, entry)

\* an overlay that shows a new interim next to the one it holds
addTranscriptionKeepInterim(s, result) ==
  IF result.isFinal THEN addFinalTranscript(s, result)
  ELSE LET id == OverlayGenerateId(s)
       IN renderTranscript(
            [s EXCEPT !.ui.overlay.nextId = @ + 1,
                      !.ui.overlay.currentInterimId = id],
            [id |-> id, isFinal |-> FALSE, sessionId |-> result.sessionId])

\* TranscriptOverlay.addTranscription
addTranscription(s, result) ==
  IF result.isFinal THEN addFinalTranscript(s, result)
  ELSE updateInterimTranscript(s, result)

\* the timer that renderTranscript sets for an interim entry: removeTranscript(id)
FadeOutCallback(s, id) == removeTranscript(s, id)

\* clearTranscriptsInternal
clearTranscriptsInternal(s) ==
  [s EXCEPT !.ui.overlay.transcripts = <<>>,
            !.ui.overlay.currentInterimId = 0,
            !.ui.overlay.shown = IF s.ui.overlay.element THEN <<>> ELSE @]

\* ControlPanel.updateStats
PanelUpdateStats(s) == [s EXCEPT !.ui.panel.stats = s.orch.stats]

\* ControlPanel.updateStatus("ready", "Video Detected")
PanelUpdateStatus(s, status) == [s EXCEPT !.ui.panel.status = status]

\* ControlPanel.incrementTranscriptCount
incrementTranscriptCount(s) ==
  [s EXCEPT !.ui.panel.stats.totalTranscriptions = @ + 1]

\* the callback the orchestrator holds for "transcription"
OnTranscription(s, result) ==
  LET owner == s.ui.slots["transcription"]
  IN CASE owner = "uiManager" ->
            addTranscription(Emit(s, "uiManager", "transcription", result.sessionId),
                             result)
       [] owner = "controlPanel" ->
            LET s1 == Emit(s, "controlPanel", "transcription", result.sessionId)
            IN IF result.isFinal THEN incrementTranscriptCount(s1) ELSE s1
       [] OTHER -> s

\* the callback the orchestrator holds for "videoDetected"
OnVideoDetected(s, video) ==
  LET owner == s.ui.slots["videoDetected"]
  IN CASE owner = "uiManager" ->
            PanelUpdateStatus(Emit(s, "uiManager", "videoDetected", video.element),
                              "ready")
       [] owner = "controlPanel" ->
            [PanelUpdateStatus(Emit(s, "controlPanel", "videoDetected", video.element),
                               "ready")
               EXCEPT !.ui.panel.startEnabled = TRUE]
       [] OTHER -> s

\* the callback the orchestrator holds for "statusChange"
OnStatusChange(s) ==
  LET owner == s.ui.slots["statusChange"]
  IN IF owner = "none" THEN s
     ELSE PanelUpdateStats(Emit(s, owner, "statusChange", 0))

\* addEventListener keeping the callback a slot already holds
addEventListenerKeepFirst(s, event, owner) ==
  IF event \in UIEvents /\ s.ui.slots[event] = "none"
  THEN [s EXCEPT !.ui.slots[event] = owner]
  ELSE s

\* VideoToTextProcessor.addEventListener: the slot takes the new callback
addEventListener(s, event, owner) ==
  IF event \in UIEvents THEN [s EXCEPT !.ui.slots[event] = owner] ELSE s

\* ControlPanel.attachEventListeners, the listeners on the processor
ControlPanelAttach(s) ==
  addEventListener(
    addEventListener(addEventListener(s, "statusChange", "controlPanel"),
                     "videoDetected", "controlPanel"),
    "transcription", "controlPanel")

\* UIManager.setupEventListeners, the listeners on the processor
UIManagerSetup(s) ==
  addEventListener(
    addEventListener(addEventListener(s, "transcription", "uiManager"),
                     "videoDetected", "uiManager"),
    "statusChange", "uiManager")

-----------------------------------------------------------------------------
(* VideoToTextProcessor: listeners it registers on its components           *)

\* notifyStatusChange: eventListeners.onStatusChange?.(getStats())
notifyStatusChange(s) ==
  IF s.orch.listeners THEN OnStatusChange(Emit(s, "orch", "statusChange", 0)) ELSE s

\* eventListeners.onError?.(error, context)
OrchEmitError(s, context) ==
  IF s.orch.listeners THEN Emit(s, "orch", "error", context) ELSE s

\* the "streamStart" listener
OrchOnStreamStart(s, sourceId) ==
  notifyStatusChange([s EXCEPT !.orch.stats.audioStreamsActive = @ + 1])

\* the "streamEnd" listener
OrchOnStreamEnd(s, sourceId) ==
  notifyStatusChange(
    [s EXCEPT !.orch.stats.audioStreamsActive = IF @ - 1 > 0 THEN @ - 1 ELSE 0])

\* the speech "start" listener
OrchOnSpeechStart(s, sessionId) ==
  notifyStatusChange([s EXCEPT !.orch.stats.transcriptionSessions = @ + 1])

\* the speech "end" listener
OrchOnSpeechEnd(s, sessionId) ==
  notifyStatusChange(
    [s EXCEPT !.orch.stats.transcriptionSessions = IF @ - 1 > 0 THEN @ - 1 ELSE 0])

\* the speech "error" listener
OrchOnSpeechError(s, kind) ==
  OrchEmitError(s, "speech-recognition")

\* index of the session's list in currentTranscripts, 0 when it has none
TranscriptIndex(ct, sessionId) ==
  IF \E i \in 1..Len(ct) : ct[i].sessionId = sessionId
  THEN CHOOSE i \in 1..Len(ct) : ct[i].sessionId = sessionId
  ELSE 0

\* a store that puts the new result in front of the session's list
StoreTranscriptInFront(ct, result) ==
  LET i == TranscriptIndex(ct, result.sessionId)
  IN IF i = 0
     THEN Append(ct, [sessionId |-> result.sessionId, results |-> <<result>>])
     ELSE [ct EXCEPT ![i].results = <<result>> \o @]

\* currentTranscripts.get(sessionId).push(result), the list created when missing
StoreTranscript(ct, result) ==
  LET i == TranscriptIndex(ct, result.sessionId)
  IN IF i = 0
     THEN Append(ct, [sessionId |-> result.sessionId, results |-> <<result>>])
     ELSE [ct EXCEPT ![i].results = Append(@, result)]

\* handleTranscriptionResult, the speech "transcript" listener
handleTranscriptionResult(s, result) ==
  LET s1 == [s EXCEPT !.orch.currentTranscripts = StoreTranscript(@, result),
                      !.orch.stats.totalTranscriptions = @ + 1]
      s2 == IF s1.orch.listeners
            THEN OnTranscription(Emit(s1, "orch", "transcription", result.sessionId),
                                 result)
            ELSE s1
  IN notifyStatusChange(s2)

\* getCurrentTranscripts(sessionId) with an id
getCurrentTranscripts(s, sessionId) ==
  LET i == TranscriptIndex(s.orch.currentTranscripts, sessionId)
  IN IF i = 0 THEN <<>> ELSE s.orch.currentTranscripts[i].results

\* allTranscripts.push(...transcripts) over currentTranscripts.values()
RECURSIVE AllTranscripts(_)
AllTranscripts(ct) ==
  IF ct = <<>> THEN <<>> ELSE Head(ct).results \o AllTranscripts(Tail(ct))

\* one result put into a list sorted by timestamp, behind its equals
RECURSIVE InsertByTimestamp(_, _)
InsertByTimestamp(sorted, r) ==
  IF sorted = <<>> THEN <<r>>
  ELSE IF r.timestamp < Head(sorted).timestamp THEN <<r>> \o sorted
  ELSE <<Head(sorted)>> \o InsertByTimestamp(Tail(sorted), r)

\* Array.prototype.sort((a, b) => a.timestamp - b.timestamp), which is stable
RECURSIVE SortByTimestamp(_)
SortByTimestamp(q) ==
  IF q = <<>> THEN <<>>
  ELSE InsertByTimestamp(SortByTimestamp(SubSeq(q, 1, Len(q) - 1)), q[Len(q)])

\* getCurrentTranscripts() without an id: a new array, merged and sorted
getAllTranscripts(s) == SortByTimestamp(AllTranscripts(s.orch.currentTranscripts))

\* the number of entries held by the transcript store, over all sessions
RECURSIVE StoredCount(_)
StoredCount(ct) ==
  IF ct = <<>> THEN 0 ELSE Len(Head(ct).results) + StoredCount(Tail(ct))

-----------------------------------------------------------------------------
(* SpeechProcessor *)

\* recognition.start(): InvalidStateError unless the engine is idle
EngineCanStart(s) == s.engine = "idle"

EngineStart(s) == Emit([s EXCEPT !.engine = "starting"], "engine", "start", 0)

\* recognition.stop(): the engine ends the session, its end event follows
EngineStop(s) ==
  Emit([s EXCEPT !.engine = IF @ \in {"starting", "running"} THEN "stopping" ELSE @],
       "engine", "stop", 0)

\* generateSessionId: a time stamp and nine random characters, a fresh id
generateSessionId(s) == s.speech.nextSid

\* recognition.onstart
OnStart(s) ==
  LET sid == generateSessionId(s)
      s1 == [s EXCEPT !.speech.isActive = TRUE,
                      !.speech.currentSession = sid,
                      !.speech.nextSid = @ + 1]
  IN IF s1.speech.listeners THEN OrchOnSpeechStart(Emit(s1, "speech", "start", sid), sid)
     ELSE s1

\* recognition.onend
OnEnd(s) ==
  LET s1 == [s EXCEPT !.speech.isActive = FALSE]
      sid == s.speech.currentSession
  IN IF sid # NullSession
     THEN LET s2 == IF s1.speech.listeners
                    THEN OrchOnSpeechEnd(Emit(s1, "speech", "end", sid), sid)
                    ELSE s1
          IN [s2 EXCEPT !.speech.currentSession = NullSession]
     ELSE s1

\* alternative.confidence || 0
ConfidenceOrZero(raw) == IF raw = -1 THEN 0 ELSE raw

\* the filter with the comparison off by one: a result at the threshold is dropped
BelowThresholdInclusive(s, confidence) == confidence <= s.speech.confidenceThreshold

\* the filter of handleRecognitionResult: confidence < confidenceThreshold
BelowThreshold(s, confidence) == confidence < s.speech.confidenceThreshold

\* handleRecognitionResult forwarding final results only
handleRecognitionResultFinalsOnly(s, results) ==
  IF results = <<>> THEN s
  ELSE LET latestResult == results[Len(results)]
           confidence == ConfidenceOrZero(latestResult.confidence)
           transcriptionResult ==
             [confidence |-> confidence,
              isFinal |-> latestResult.isFinal,
              timestamp |-> s.env.now,
              sessionId |-> IF s.speech.currentSession # NullSession
                            THEN s.speech.currentSession ELSE UnknownSession]
       IN IF BelowThreshold(s, confidence) \/ ~latestResult.isFinal THEN s
          ELSE IF s.speech.listeners
               THEN handleTranscriptionResult(
                      Emit(s, "speech", "transcript", transcriptionResult.sessionId),
                      transcriptionResult)
               ELSE s

\* handleRecognitionResult going through every entry of event.results
RECURSIVE handleRecognitionResultEveryEntry(_, _)
handleRecognitionResultEveryEntry(s, results) ==
  IF results = <<>> THEN s
  ELSE LET s0 == handleRecognitionResultEveryEntry(s, SubSeq(results, 1, Len(results) - 1))
           latestResult == results[Len(results)]
           confidence == ConfidenceOrZero(latestResult.confidence)
           transcriptionResult ==
             [confidence |-> confidence,
              isFinal |-> latestResult.isFinal,
              timestamp |-> s0.env.now,
              sessionId |-> IF s0.speech.currentSession # NullSession
                            THEN s0.speech.currentSession ELSE UnknownSession]
       IN IF BelowThreshold(s0, confidence) THEN s0
          ELSE IF s0.speech.listeners
               THEN handleTranscriptionResult(
                      Emit(s0, "speech", "transcript", transcriptionResult.sessionId),
                      transcriptionResult)
               ELSE s0

\* handleRecognitionResult: only the last entry of event.results is read
handleRecognitionResult(s, results) ==
  IF results = <<>> THEN s
  ELSE LET latestResult == results[Len(results)]
           confidence == ConfidenceOrZero(latestResult.confidence)
           transcriptionResult ==
             [confidence |-> confidence,
              isFinal |-> latestResult.isFinal,
              timestamp |-> s.env.now,
              sessionId |-> IF s.speech.currentSession # NullSession
                            THEN s.speech.currentSession ELSE UnknownSession]
       IN IF BelowThreshold(s, confidence) THEN s
          ELSE IF s.speech.listeners
               THEN handleTranscriptionResult(
                      Emit(s, "speech", "transcript", transcriptionResult.sessionId),
                      transcriptionResult)
               ELSE s

\* restartRecognition: a timer, unless the session is inactive
restartRecognition(s) ==
  IF ~s.speech.isActive THEN s ELSE SetTimer(s, "restart", RESTART_DELAY)

\* the timer callback of restartRecognition; a throwing start() is caught
RestartCallback(s) ==
  IF s.speech.recognition /\ s.speech.isActive
  THEN IF EngineCanStart(s) THEN EngineStart(s)
       ELSE Emit(s, "engine", "startThrows", 0)
  ELSE s

\* scheduleReconnect
scheduleReconnect(s) == SetTimer(s, "reconnect", RECONNECT_DELAY)

\* startRecognition without its early return on an active session
startRecognitionNoActiveCheck(s) ==
  IF ~s.speech.recognition
  THEN [s |-> s, promise |-> "rejected"]
  ELSE IF EngineCanStart(s)
  THEN [s |-> SetTimer(EngineStart(s), "poll", POLL_INTERVAL), promise |-> "pending"]
  ELSE [s |-> Emit(s, "engine", "startThrows", 0), promise |-> "rejected"]

\* startRecognition: the state after the call and how the promise stands
startRecognition(s) ==
  IF ~s.speech.recognition
  THEN [s |-> s, promise |-> "rejected"]
  ELSE IF s.speech.isActive
  THEN [s |-> Emit(s, "speech", "startResolved", s.speech.currentSession),
        promise |-> "resolved"]
  ELSE IF EngineCanStart(s)
  THEN [s |-> SetTimer(EngineStart(s), "poll", POLL_INTERVAL), promise |-> "pending"]
  ELSE [s |-> Emit(s, "engine", "startThrows", 0), promise |-> "rejected"]

\* checkSession resolving at its first run, whether the session started or not
checkSessionNoWait(s) ==
  Emit(s, "speech", "startResolved", s.speech.currentSession)

\* checkSession, the polling callback of startRecognition
checkSession(s) ==
  IF s.speech.currentSession # NullSession
  THEN Emit(s, "speech", "startResolved", s.speech.currentSession)
  ELSE SetTimer(s, "poll", POLL_INTERVAL)

\* the timer callback of scheduleReconnect; the promise is not awaited
ReconnectCallback(s) ==
  IF s.speech.isActive THEN startRecognition(s).s ELSE s

\* handleRecognitionError restarting after every kind of error
handleRecognitionErrorAlwaysRestart(s, kind) ==
  LET s1 == IF s.speech.listeners
            THEN OrchOnSpeechError(Emit(s, "speech", "error", kind), kind)
            ELSE s
  IN restartRecognition(s1)

\* handleRecognitionError
handleRecognitionError(s, kind) ==
  LET s1 == IF s.speech.listeners
            THEN OrchOnSpeechError(Emit(s, "speech", "error", kind), kind)
            ELSE s
  IN CASE kind = "no-speech" -> restartRecognition(s1)
       [] kind = "network" -> scheduleReconnect(s1)
       [] OTHER -> s1

\* stopRecognition without the isActive test before recognition.stop()
stopRecognitionAlways(s) ==
  LET s1 == IF s.speech.recognition THEN EngineStop(s) ELSE s
  IN [s1 EXCEPT !.speech.isActive = FALSE]

\* stopRecognition
stopRecognition(s) ==
  LET s1 == IF s.speech.recognition /\ s.speech.isActive THEN EngineStop(s) ELSE s
  IN [s1 EXCEPT !.speech.isActive = FALSE]

\* SpeechProcessor.updateConfig, for the confidence threshold
SpeechUpdateConfig(s, threshold) ==
  [s EXCEPT !.speech.confidenceThreshold = threshold]

\* pendingChunks keeps the most recent chunks only
MAX_PENDING_CHUNKS == 10

\* processAudioChunk
processAudioChunk(s, chunk) ==
  LET pushed == Append(s.speech.pendingChunks, chunk)
  IN [s EXCEPT !.speech.pendingChunks =
        IF Len(pushed) > MAX_PENDING_CHUNKS THEN Tail(pushed) ELSE pushed]

\* isRecognitionActive
isRecognitionActive(s) == s.speech.isActive

\* handleAudioChunk forwarding every chunk, listening or not
handleAudioChunkAlways(s, chunk) == processAudioChunk(s, chunk)

\* VideoToTextProcessor.handleAudioChunk, the "audioChunk" listener
handleAudioChunk(s, chunk) ==
  IF isRecognitionActive(s) THEN processAudioChunk(s, chunk) ELSE s

\* destroy without its call of stopRecognition
SpeechDestroyNoStop(s) ==
  [s EXCEPT !.speech.recognition = FALSE,
            !.speech.listeners = FALSE,
            !.speech.pendingChunks = <<>>,
            !.speech.currentSession = NullSession]

\* SpeechProcessor.destroy
SpeechDestroy(s) ==
  [stopRecognition(s) EXCEPT !.speech.recognition = FALSE,
                             !.speech.listeners = FALSE,
                             !.speech.pendingChunks = <<>>,
                             !.speech.currentSession = NullSession]

-----------------------------------------------------------------------------
(* AudioExtractor *)

\* index of the stream registered under sourceId in activeStreams, 0 when none
StreamIndex(streams, sourceId) ==
  IF \E i \in 1..Len(streams) : streams[i].sourceId = sourceId
  THEN CHOOSE i \in 1..Len(streams) : streams[i].sourceId = sourceId
  ELSE 0

RemoveAt(q, i) == SubSeq(q, 1, i - 1) \o SubSeq(q, i + 1, Len(q))

ActiveStreamIds(s) ==
  {s.extractor.activeStreams[i].sourceId : i \in 1..Len(s.extractor.activeStreams)}

\* eventListeners.onStreamEnd?.(sourceId)
ExtractorEmitStreamEnd(s, sourceId) ==
  IF s.extractor.listeners
  THEN OrchOnStreamEnd(Emit(s, "extractor", "streamEnd", sourceId), sourceId)
  ELSE s

\* processAudioBuffer: the chunk made of one audio buffer goes to the listener
processAudioBuffer(s, sourceId, chunk) ==
  IF s.extractor.listeners
  THEN handleAudioChunk(Emit(s, "extractor", "audioChunk", chunk), chunk)
  ELSE s

\* stopExtraction
stopExtraction(s, sourceId) ==
  LET s1 == [s EXCEPT !.extractor.processors = @ \ {sourceId}]
      i == StreamIndex(s1.extractor.activeStreams, sourceId)
      s2 == IF i = 0 THEN s1
            ELSE [s1 EXCEPT !.extractor.activeStreams = RemoveAt(@, i),
                            !.extractor.nodes =
                               {n \in @ : n.sourceId # sourceId}]
  IN ExtractorEmitStreamEnd(s2, sourceId)

RECURSIVE StopEach(_, _)
StopEach(s, sourceIds) ==
  IF sourceIds = <<>> THEN s
  ELSE StopEach(stopExtraction(s, Head(sourceIds)), Tail(sourceIds))

\* AudioExtractor.destroy
ExtractorDestroy(s) ==
  LET ids == [i \in 1..Len(s.extractor.activeStreams) |->
                s.extractor.activeStreams[i].sourceId]
  IN [StopEach(s, ids) EXCEPT !.extractor.isInitialized = FALSE,
                              !.extractor.listeners = FALSE]

-----------------------------------------------------------------------------
(* VideoToTextProcessor: public operations *)

\* activeVideoSources.values(), in insertion order
SourceValues(s) ==
  [i \in 1..Len(s.orch.activeVideoSources) |-> s.orch.activeVideoSources[i].sourceId]

\* start
OrchStart(s) ==
  IF s.orch.isProcessing THEN s
  ELSE notifyStatusChange([s EXCEPT !.orch.isProcessing = TRUE,
                                    !.orch.stats.isActive = TRUE])

\* stop without its early return on a processor that is not running
OrchStopUnguarded(s) ==
  LET s1 == StopEach(s, SourceValues(s))
      s2 == [s1 EXCEPT !.orch.activeVideoSources = <<>>]
      s3 == stopRecognition(s2)
  IN notifyStatusChange([s3 EXCEPT !.orch.isProcessing = FALSE,
                                   !.orch.stats.isActive = FALSE])

\* stop
OrchStop(s) ==
  IF ~s.orch.isProcessing THEN s
  ELSE LET s1 == StopEach(s, SourceValues(s))
           s2 == [s1 EXCEPT !.orch.activeVideoSources = <<>>]
           s3 == stopRecognition(s2)
       IN notifyStatusChange([s3 EXCEPT !.orch.isProcessing = FALSE,
                                        !.orch.stats.isActive = FALSE])

\* updateConfig with a speechConfig part
OrchUpdateConfig(s, threshold) == SpeechUpdateConfig(s, threshold)

\* updateConfig with an audioConfig part: merged into the orchestrator's own
\* config, and passed on to no component
OrchUpdateAudioConfig(s, audioConfig) ==
  [s EXCEPT !.orch.audioConfig = audioConfig]

\* `await this.speechProcessor.startRecognition()` and the catch around it
AwaitStartRecognition(s) ==
  LET r == startRecognition(s)
  IN IF r.promise = "rejected" THEN OrchEmitError(r.s, "video-processing") ELSE r.s

-----------------------------------------------------------------------------
(* AudioExtractor: extraction *)

\* getExtractionMethods leaving the preferred method in the fallbacks
getExtractionMethodsRepeating(config) ==
  IF config.preferredMethod = "auto" THEN config.fallbackMethods
  ELSE <<config.preferredMethod>> \o config.fallbackMethods

\* getExtractionMethods
getExtractionMethods(config) ==
  IF config.preferredMethod = "auto" THEN config.fallbackMethods
  ELSE <<config.preferredMethod>> \o
       SelectSeq(config.fallbackMethods, LAMBDA m : m # config.preferredMethod)

\* extractFromMediaStream succeeds: srcObject is a MediaStream with audio tracks
MediaStreamOk(s, video) ==
  video.metadata.srcObject \in {"audio", "muted"}

\* extractFromVideoElement succeeds: createMediaElementSource throws
\* InvalidStateError on an element that already feeds a source node
VideoElementOk(s, video) == ~s.dom[video.element].sourced

\* extractWithMethod: whether the attempt yields a source (it throws otherwise;
\* extractFromTabCapture always throws)
MethodOk(s, video, method) ==
  CASE method = "mediastream" -> MediaStreamOk(s, video)
    [] method = "element" -> VideoElementOk(s, video)
    [] OTHER -> FALSE

\* an attempt that creates its source node before it finds that it must throw
extractWithMethodLeaky(s, video, method, sourceId) ==
  [s |-> [s EXCEPT !.extractor.nodes =
            @ \cup {[sourceId |-> sourceId, method |-> method]}],
   ok |-> MethodOk(s, video, method)]

\* extractWithMethod: a successful attempt has created its source node
\* (createMediaStreamSource, createMediaElementSource), a failed one has
\* thrown before creating anything
extractWithMethod(s, video, method, sourceId) ==
  IF MethodOk(s, video, method)
  THEN [s |-> [s EXCEPT
                 !.dom[video.element].sourced = @ \/ method = "element",
                 !.extractor.nodes =
                    @ \cup {[sourceId |-> sourceId, method |-> method]}],
        ok |-> TRUE]
  ELSE [s |-> s, ok |-> FALSE]

\* startAudioProcessing when createScriptProcessor throws: the catch reports
\* the error, no processor is registered and no stream start is notified
startAudioProcessingThrows(s, sourceId) ==
  IF s.extractor.listeners
  THEN OrchEmitError(Emit(s, "extractor", "error", sourceId), "audio-extraction")
  ELSE s

\* startAudioProcessing
startAudioProcessing(s, sourceId) ==
  LET s1 == [s EXCEPT !.extractor.processors = @ \cup {sourceId}]
  IN IF s1.extractor.listeners
     THEN OrchOnStreamStart(Emit(s1, "extractor", "streamStart", sourceId), sourceId)
     ELSE s1

\* the loop of extractAudioFromVideo over the methods left to try
RECURSIVE TryMethods(_, _, _, _)
TryMethods(s, video, methods, sourceId) ==
  IF methods = <<>>
  THEN [s |-> IF s.extractor.listeners
              THEN OrchEmitError(Emit(s, "extractor", "error", sourceId),
                                 "audio-extraction")
              ELSE s,
        sourceId |-> 0]
  ELSE LET method == Head(methods)
           r == extractWithMethod(Emit(s, "extractor", "attempt", method),
                                  video, method, sourceId)
       IN IF r.ok
          THEN LET s1 == [r.s EXCEPT
                      !.extractor.activeStreams =
                         Append(@, [sourceId |-> sourceId, method |-> method,
                                    element |-> video.element])]
               IN [s |-> startAudioProcessing(s1, sourceId), sourceId |-> sourceId]
          ELSE TryMethods(Emit(r.s, "extractor", "methodFailed", sourceId),
                          video, Tail(methods), sourceId)

\* extractAudioFromVideo: the state after it and the source id, 0 for null
extractAudioFromVideo(s, video) ==
  LET s0 == Emit(s, "extractor", "extractAudioFromVideo", video.element)
  IN IF ~s0.extractor.isInitialized THEN [s |-> s0, sourceId |-> 0]
     ELSE LET sourceId == s0.extractor.nextSource
              s1 == [s0 EXCEPT !.extractor.nextSource = @ + 1]
          IN TryMethods(s1, video, getExtractionMethods(s1.extractor.config),
                        sourceId)

-----------------------------------------------------------------------------
(* VideoToTextProcessor: detector events *)

\* VideoToTextProcessor.generateVideoId, the pieces of the template string
OrchVideoId(s, video) ==
  LET el == s.dom[video.element]
  IN <<video.platform, "_", el.left, "_", el.top, "_", el.videoWidth, "x",
       el.videoHeight>>

\* index of the entry with this key in activeVideoSources, 0 when none
SourceIndex(map, videoId) ==
  IF \E i \in 1..Len(map) : map[i].videoId = videoId
  THEN CHOOSE i \in 1..Len(map) : map[i].videoId = videoId
  ELSE 0

\* activeVideoSources.set(videoId, audioSourceId)
MapSet(map, videoId, sourceId) ==
  LET i == SourceIndex(map, videoId)
  IN IF i = 0 THEN Append(map, [videoId |-> videoId, sourceId |-> sourceId])
     ELSE [map EXCEPT ![i].sourceId = sourceId]

\* handleVideoDetected up to its first await
handleVideoDetectedSync(s, video) ==
  LET s1 == [s EXCEPT !.orch.stats.videosDetected = @ + 1]
  IN IF s1.orch.listeners
     THEN OnVideoDetected(Emit(s1, "orch", "videoDetected", video.element), video)
     ELSE s1

\* handleVideoDetected going on to the extraction for a video without audio
handleVideoDetectedAsyncAnyVideo(s, video) ==
  LET r == extractAudioFromVideo(s, video)
  IN IF r.sourceId = 0 THEN r.s
     ELSE [r.s EXCEPT !.orch.activeVideoSources =
                         MapSet(@, OrchVideoId(r.s, video), r.sourceId)]

\* handleVideoDetected from the extraction on: it runs in the microtasks that
\* follow the scan, before any other macrotask
handleVideoDetectedAsync(s, video) ==
  IF ~video.hasAudio THEN s
  ELSE LET r == extractAudioFromVideo(s, video)
       IN IF r.sourceId = 0 THEN r.s
          ELSE LET videoId == OrchVideoId(r.s, video)
                   s1 == [r.s EXCEPT !.orch.activeVideoSources =
                                        MapSet(@, videoId, r.sourceId)]
                   s2 == IF s1.orch.listeners
                         THEN Emit(s1, "orch", "audioStarted", r.sourceId)
                         ELSE s1
               IN IF s2.orch.enableRealTimeTranscription
                  THEN AwaitStartRecognition(s2)
                  ELSE s2

\* handleVideoRemoved
handleVideoRemoved(s, videoId) ==
  LET i == SourceIndex(s.orch.activeVideoSources, videoId)
  IN IF i = 0 THEN s
     ELSE [stopExtraction(s, s.orch.activeVideoSources[i].sourceId)
             EXCEPT !.orch.activeVideoSources = RemoveAt(@, i)]

-----------------------------------------------------------------------------
(* VideoDetector *)

\* VIDEO_QUALITY_THRESHOLDS
MIN_WIDTH == 160
MIN_HEIGHT == 120
MIN_DURATION == 1
\* the volume delta of hasSignificantChange, 0.1 as a percentage
VOLUME_DELTA == 10

\* VideoDetector.generateVideoId, the pieces of the template string
DetectorVideoId(el) ==
  <<el.src, "_", el.left, ",", el.top, "_", el.videoWidth, "x", el.videoHeight>>

\* hasAudioTrack: a MediaStream needs an enabled audio track, anything else
\* is assumed to have audio
hasAudioTrack(el) ==
  IF el.srcObject # "none" THEN el.srcObject = "audio" ELSE TRUE

\* getVideoMetadata
getVideoMetadata(el) ==
  [width |-> IF el.videoWidth # 0 THEN el.videoWidth ELSE el.clientWidth,
   height |-> IF el.videoHeight # 0 THEN el.videoHeight ELSE el.clientHeight,
   duration |-> el.duration,
   volume |-> el.volume, isPlaying |-> el.isPlaying, isVisible |-> el.isVisible,
   hasAudioTrack |-> hasAudioTrack(el), srcObject |-> el.srcObject]

\* analyzeVideo
analyzeVideo(s, e) ==
  LET metadata == getVideoMetadata(s.dom[e])
  IN [element |-> e, platform |-> s.detector.currentPlatform,
      hasAudio |-> metadata.hasAudioTrack, metadata |-> metadata]

\* isValidVideo without its visibility test
isValidVideoHidden(video) ==
  /\ video.metadata.width >= MIN_WIDTH
  /\ video.metadata.height >= MIN_HEIGHT
  /\ (video.metadata.isPlaying \/ video.metadata.duration > MIN_DURATION)

\* isValidVideo
isValidVideo(video) ==
  /\ video.metadata.width >= MIN_WIDTH
  /\ video.metadata.height >= MIN_HEIGHT
  /\ video.metadata.isVisible
  /\ (video.metadata.isPlaying \/ video.metadata.duration > MIN_DURATION)

Abs(x) == IF x < 0 THEN -x ELSE x

\* hasSignificantChange
hasSignificantChange(old, new) ==
  \/ old.isPlaying # new.isPlaying
  \/ old.isVisible # new.isVisible
  \/ Abs(old.volume - new.volume) > VOLUME_DELTA
  \/ old.hasAudioTrack # new.hasAudioTrack

\* a lookup in detectedVideos that never finds the id
DetectedIndexNotFound(dv, videoId) == 0

\* index of the entry with this id in detectedVideos, 0 when none
DetectedIndex(dv, videoId) ==
  IF \E i \in 1..Len(dv) : dv[i].videoId = videoId
  THEN CHOOSE i \in 1..Len(dv) : dv[i].videoId = videoId
  ELSE 0

\* the first loop of scanForVideos over the elements found: the state, the ids
\* seen, and the videos whose handleVideoDetected is suspended at its await
RECURSIVE ScanElements(_, _, _, _)
ScanElements(s, elements, currentVideoIds, pending) ==
  IF elements = <<>>
  THEN [s |-> s, currentVideoIds |-> currentVideoIds, pending |-> pending]
  ELSE LET e == Head(elements)
           videoId == DetectorVideoId(s.dom[e])
           ids == currentVideoIds \cup {videoId}
           i == DetectedIndex(s.detector.detectedVideos, videoId)
       IN IF i = 0
          THEN LET detectedVideo == analyzeVideo(s, e)
               IN IF isValidVideo(detectedVideo)
                  THEN LET s1 == [s EXCEPT !.detector.detectedVideos =
                                     Append(@, [videoId |-> videoId,
                                                video |-> detectedVideo])]
                           s2 == IF s1.detector.listeners
                                 THEN handleVideoDetectedSync(
                                        Emit(s1, "detector", "videoDetected", e),
                                        detectedVideo)
                                 ELSE s1
                       IN ScanElements(s2, Tail(elements), ids,
                            IF s1.detector.listeners
                            THEN Append(pending, detectedVideo) ELSE pending)
                  ELSE ScanElements(s, Tail(elements), ids, pending)
          ELSE LET updatedMetadata == getVideoMetadata(s.dom[e])
                   existing == s.detector.detectedVideos[i].video
                   s1 == IF hasSignificantChange(existing.metadata, updatedMetadata)
                         THEN [s EXCEPT !.detector.detectedVideos[i].video.metadata =
                                           updatedMetadata]
                         ELSE s
               IN ScanElements(s1, Tail(elements), ids, pending)

\* the removal loop without its document.contains test
RECURSIVE ScanRemovalsByIdOnly(_, _, _)
ScanRemovalsByIdOnly(s, entries, currentVideoIds) ==
  IF entries = <<>> THEN s
  ELSE LET entry == Head(entries)
       IN IF entry.videoId \notin currentVideoIds
          THEN LET i == DetectedIndex(s.detector.detectedVideos, entry.videoId)
                   s1 == [s EXCEPT !.detector.detectedVideos = RemoveAt(@, i)]
                   s2 == IF s1.detector.listeners
                         THEN handleVideoRemoved(
                                Emit(s1, "detector", "videoRemoved", entry.video.element),
                                entry.videoId)
                         ELSE s1
               IN ScanRemovalsByIdOnly(s2, Tail(entries), currentVideoIds)
          ELSE ScanRemovalsByIdOnly(s, Tail(entries), currentVideoIds)

\* the second loop of scanForVideos, over the entries detectedVideos held
RECURSIVE ScanRemovals(_, _, _)
ScanRemovals(s, entries, currentVideoIds) ==
  IF entries = <<>> THEN s
  ELSE LET entry == Head(entries)
       IN IF entry.videoId \notin currentVideoIds
             \/ ~s.dom[entry.video.element].attached
          THEN LET i == DetectedIndex(s.detector.detectedVideos, entry.videoId)
                   s1 == [s EXCEPT !.detector.detectedVideos = RemoveAt(@, i)]
                   s2 == IF s1.detector.listeners
                         THEN handleVideoRemoved(
                                Emit(s1, "detector", "videoRemoved", entry.video.element),
                                entry.videoId)
                         ELSE s1
               IN ScanRemovals(s2, Tail(entries), currentVideoIds)
          ELSE ScanRemovals(s, Tail(entries), currentVideoIds)

RECURSIVE RunPending(_, _)
RunPending(s, pending) ==
  IF pending = <<>> THEN s
  ELSE RunPending(handleVideoDetectedAsync(s, Head(pending)), Tail(pending))

\* DOMUtils.findElements(videoSelectors): the attached video elements, in
\* document order
RECURSIVE findElements(_, _)
findElements(s, from) ==
  IF from > Len(s.dom) THEN <<>>
  ELSE (IF s.dom[from].attached THEN <<from>> ELSE <<>>) \o findElements(s, from + 1)

\* scanForVideos, and the microtasks it leaves behind
scanForVideos(s) ==
  LET r == ScanElements(s, findElements(s, 1), {}, <<>>)
      s1 == ScanRemovals(r.s, r.s.detector.detectedVideos, r.currentVideoIds)
  IN RunPending(s1, r.pending)

\* DETECTION_SETTINGS
RETRY_INTERVAL == 2000
MAX_RETRY_ATTEMPTS == 5

\* scheduleRetry with the same delay for every retry
scheduleRetryFixedDelay(s) ==
  IF s.detector.retryCount >= MAX_RETRY_ATTEMPTS
  THEN Emit(s, "detector", "giveUp", s.detector.retryCount)
  ELSE LET s1 == [s EXCEPT !.detector.retryCount = @ + 1]
       IN SetTimer(Emit(s1, "detector", "retryScheduled", RETRY_INTERVAL),
                   "retry", RETRY_INTERVAL)

\* scheduleRetry
scheduleRetry(s) ==
  IF s.detector.retryCount >= MAX_RETRY_ATTEMPTS
  THEN Emit(s, "detector", "giveUp", s.detector.retryCount)
  ELSE LET s1 == [s EXCEPT !.detector.retryCount = @ + 1]
           delay == RETRY_INTERVAL * s1.detector.retryCount
       IN SetTimer(Emit(s1, "detector", "retryScheduled", delay), "retry", delay)

\* startVideoDetection: the initial scan, then the periodic check
startVideoDetection(s) ==
  [scanForVideos(s) EXCEPT !.detector.interval = TRUE]

\* VideoDetector.initialize; `fails` says whether platform detection or the
\* start of the detection throws
initialize(s, fails) ==
  LET s1 == Emit(s, "detector", "initialize", fails)
  IN IF fails THEN scheduleRetry(s1) ELSE startVideoDetection(s1)

\* VideoDetector.destroy
DetectorDestroy(s) ==
  [s EXCEPT !.detector.interval = FALSE,
            !.detector.detectedVideos = <<>>,
            !.detector.listeners = FALSE]

\* destroy relying on stop() for the audio sources
OrchDestroyNoExtractor(s) ==
  LET s1 == SpeechDestroy(DetectorDestroy(OrchStop(s)))
  IN [s1 EXCEPT !.orch.activeVideoSources = <<>>,
                !.orch.currentTranscripts = <<>>,
                !.orch.listeners = FALSE,
                !.ui.slots = [e \in UIEvents |-> "none"]]

\* VideoToTextProcessor.destroy
OrchDestroy(s) ==
  LET s1 == SpeechDestroy(ExtractorDestroy(DetectorDestroy(OrchStop(s))))
  IN [s1 EXCEPT !.orch.activeVideoSources = <<>>,
                !.orch.currentTranscripts = <<>>,
                !.orch.listeners = FALSE,
                !.ui.slots = [e \in UIEvents |-> "none"]]

-----------------------------------------------------------------------------
(* Initial state: the orchestrator constructed by the content script, its    *)
(* listeners registered by the UI, nothing detected yet                     *)

InitSpeech ==
  [recognition |-> TRUE, isActive |-> FALSE, currentSession |-> NullSession,
   nextSid |-> 1, confidenceThreshold |-> CONTENT_SCRIPT_THRESHOLD,
   pendingChunks |-> <<>>, listeners |-> TRUE]

InitOrch ==
  [isProcessing |-> FALSE, activeVideoSources |-> <<>>, currentTranscripts |-> <<>>,
   enableRealTimeTranscription |-> TRUE, listeners |-> TRUE,
   audioConfig |-> [preferredMethod |-> "auto",
                    fallbackMethods |-> <<"mediastream", "element", "capture">>],
   stats |-> [videosDetected |-> 0, audioStreamsActive |-> 0,
              transcriptionSessions |-> 0, totalTranscriptions |-> 0,
              isActive |-> FALSE]]

InitExtractor ==
  [isInitialized |-> TRUE, activeStreams |-> <<>>, processors |-> {}, nodes |-> {},
   nextSource |-> 1, listeners |-> TRUE,
   config |-> [preferredMethod |-> "auto",
               fallbackMethods |-> <<"mediastream", "element", "capture">>]]

InitDetector ==
  [detectedVideos |-> <<>>, currentPlatform |-> "generic", listeners |-> TRUE,
   interval |-> TRUE, retryCount |-> 0]

\* the user interface after UIManager.initialize: the control panel was
\* constructed first, then UIManager registered its own listeners
InitUI ==
  [slots |-> [e \in UIEvents |-> "uiManager"],
   overlay |-> [element |-> TRUE, currentInterimId |-> 0, shown |-> <<>>,
                transcripts |-> <<>>, nextId |-> 1],
   panel |-> [status |-> "inactive", startEnabled |-> FALSE,
              stats |-> InitOrch.stats]]

\* the content script after the initial load: one extension instance, the
\* current one; an instance is "live" until its destroy() has run
InitScript ==
  [extension |-> 1, instances |-> <<"live">>, navigations |-> 0, loading |-> FALSE]

InitEnv ==
  [results |-> 0, errors |-> 0, changes |-> 0, chunks |-> 0, reported |-> {},
   now |-> 0]

InitWith(elements) ==
  /\ speech = InitSpeech
  /\ engine = "idle"
  /\ timers = EmptyBag
  /\ orch = InitOrch
  /\ extractor = InitExtractor
  /\ detector = InitDetector
  /\ dom = elements
  /\ ui = InitUI
  /\ script = InitScript
  /\ env = InitEnv
  /\ out = <<>>

-----------------------------------------------------------------------------
(* Actions: public calls *)

\* VideoToTextProcessor.start()
Start ==
  /\ Becomes(OrchStart(Emit(Begin, "call", "start", 0)))

\* VideoToTextProcessor.stop()
Stop ==
  /\ Becomes(OrchStop(Emit(Begin, "call", "stop", 0)))

\* VideoToTextProcessor.destroy()
Destroy ==
  /\ Becomes(OrchDestroy(Emit(Begin, "call", "destroy", 0)))

\* VideoToTextProcessor.updateConfig({speechConfig: {confidenceThreshold}})
UpdateConfig ==
  \E th \in Thresholds :
    /\ th # speech.confidenceThreshold
    /\ Becomes(OrchUpdateConfig(Emit(Begin, "call", "updateConfig", th), th))

\* handleVideoDetected reaches `await startRecognition()` for an extracted video
RequestRecognition ==
  /\ detector.listeners
  /\ Becomes(AwaitStartRecognition(Emit(Begin, "call", "startRecognition", 0)))

(* Actions: timers *)

\* time passes: one tick, while no timer is due
Tick ==
  /\ timers # EmptyBag
  /\ \A t \in BagToSet(timers) : t.rem > 0
  /\ Becomes([Begin EXCEPT !.timers =
       LET ts == BagToSet(timers)
           later == {[t EXCEPT !.rem = @ - 1] : t \in ts}
       IN [u \in later |-> timers[[u EXCEPT !.rem = @ + 1]]]])

Due(kind) == [kind |-> kind, rem |-> 0]

TakeTimer(s, kind) ==
  Emit([s EXCEPT !.timers = @ (-) SetToBag({Due(kind)})], "timer", kind, 0)

PollTimer ==
  /\ BagIn(Due("poll"), timers)
  /\ Becomes(checkSession(TakeTimer(Begin, "poll")))

RestartTimer ==
  /\ BagIn(Due("restart"), timers)
  /\ Becomes(RestartCallback(TakeTimer(Begin, "restart")))

ReconnectTimer ==
  /\ BagIn(Due("reconnect"), timers)
  /\ Becomes(ReconnectCallback(TakeTimer(Begin, "reconnect")))

(* Actions: the speech engine *)

Handled(s, h) == IF s.speech.recognition THEN h ELSE s

EngineStarted ==
  /\ engine = "starting"
  /\ speech.nextSid <= MaxSessions
  /\ LET s == Emit([Begin EXCEPT !.engine = "running"], "engine", "onstart", 0)
     IN Becomes(Handled(s, OnStart(s)))

EngineEnded ==
  /\ engine \in {"running", "stopping", "failing"}
  /\ LET s == Emit([Begin EXCEPT !.engine = "idle"], "engine", "onend", 0)
     IN Becomes(Handled(s, OnEnd(s)))

EngineResult ==
  /\ engine \in {"running", "stopping"}
  /\ env.results < MaxResults
  /\ \E results \in Batches :
       LET s == Emit([Begin EXCEPT !.env.results = @ + 1],
                     "engine", "onresult", results)
       IN Becomes(Handled(s, handleRecognitionResult(s, results)))

EngineError ==
  /\ env.errors < MaxErrors
  /\ \E kind \in ErrorKinds :
       /\ engine \in (IF kind = "no-speech" THEN {"running"} ELSE {"starting", "running"})
       /\ LET s == Emit([Begin EXCEPT !.engine = "failing", !.env.errors = @ + 1],
                        "engine", "onerror", kind)
          IN Becomes(Handled(s, handleRecognitionError(s, kind)))

-----------------------------------------------------------------------------
(* The speech session with the orchestrator's listeners: result handling *)

InitTranscript == InitWith(<<>>)

NextTranscript ==
  \/ Start
  \/ Stop
  \/ UpdateConfig
  \/ RequestRecognition
  \/ Tick
  \/ PollTimer
  \/ EngineStarted
  \/ EngineEnded
  \/ EngineResult

SpecTranscript == InitTranscript /\ [][NextTranscript]_vars

(* The speech session stopped through SpeechProcessor.stopRecognition *)

\* SpeechProcessor.stopRecognition()
StopRecognition ==
  /\ Becomes(stopRecognition(Emit(Begin, "call", "stopRecognition", 0)))

NextStop ==
  \/ RequestRecognition
  \/ StopRecognition
  \/ Tick
  \/ PollTimer
  \/ EngineStarted
  \/ EngineEnded
  \/ EngineResult

SpecStop == InitTranscript /\ [][NextStop]_vars

(* The start of a speech session, with the event loop and the engine fair:  *)
(* a due timer callback runs, time passes, and the engine delivers the      *)
(* start and end events it owes.  Callers ask for recognition while session *)
(* ids are left.                                                             *)

RequestWhileSessionsLeft ==
  /\ speech.nextSid <= MaxSessions
  /\ RequestRecognition

NextStartup ==
  \/ RequestWhileSessionsLeft
  \/ StopRecognition
  \/ Destroy
  \/ Tick
  \/ PollTimer
  \/ RestartTimer
  \/ ReconnectTimer
  \/ EngineStarted
  \/ EngineEnded
  \/ EngineError

SpecStartup ==
  /\ InitTranscript
  /\ [][NextStartup]_vars
  /\ WF_vars(Tick)
  /\ WF_vars(PollTimer)
  /\ WF_vars(RestartTimer)
  /\ WF_vars(ReconnectTimer)
  /\ WF_vars(EngineStarted)
  /\ WF_vars(EngineEnded)

(* The speech session under every event and call, in any order *)

NextSession ==
  \/ RequestWhileSessionsLeft
  \/ StopRecognition
  \/ Destroy
  \/ Tick
  \/ PollTimer
  \/ RestartTimer
  \/ ReconnectTimer
  \/ EngineStarted
  \/ EngineEnded
  \/ EngineResult
  \/ EngineError

SpecSession == InitTranscript /\ [][NextSession]_vars

(* The speech session with the orchestrator's listeners: error recovery *)

NextRecovery ==
  \/ Start
  \/ Stop
  \/ RequestRecognition
  \/ Tick
  \/ PollTimer
  \/ RestartTimer
  \/ ReconnectTimer
  \/ EngineStarted
  \/ EngineEnded
  \/ EngineError

SpecRecovery == InitTranscript /\ [][NextRecovery]_vars

-----------------------------------------------------------------------------
(* The whole pipeline on a page with two video elements *)

\* a video element fed by a MediaStream with an enabled audio track
StreamVideo ==
  [attached |-> FALSE, src |-> "", left |-> 0, top |-> 0,
   videoWidth |-> 640, videoHeight |-> 480, clientWidth |-> 640,
   clientHeight |-> 480, duration |-> 0, volume |-> 100,
   isPlaying |-> TRUE, isVisible |-> TRUE, srcObject |-> "audio", sourced |-> FALSE]

\* a video element playing a file
FileVideo ==
  [attached |-> FALSE, src |-> "a.mp4", left |-> 0, top |-> 0,
   videoWidth |-> 640, videoHeight |-> 480, clientWidth |-> 640,
   clientHeight |-> 480, duration |-> 60, volume |-> 100,
   isPlaying |-> TRUE, isVisible |-> TRUE, srcObject |-> "none", sourced |-> FALSE]

\* rounded left offsets an element takes
Positions == {0, 1}

\* changes of the page (attach, detach, move) over a run
MaxChanges == 3

Elems == 1..Len(dom)

\* a change of element e: one more change, and e is no longer the element
\* that was last reported
Changed(s, e) == [s EXCEPT !.env.changes = @ + 1, !.env.reported = @ \ {e}]

\* the elements a scan has reported detected and that have not changed since
Observed(s) ==
  [s EXCEPT !.env.reported =
     @ \cup {e \in 1..Len(s.dom) :
               \E i \in 1..Len(s.out) :
                 /\ s.out[i].who = "detector"
                 /\ s.out[i].ev = "videoDetected"
                 /\ s.out[i].arg = e}]

\* the page attaches a video element
Attach ==
  /\ env.changes < MaxChanges
  /\ \E e \in Elems :
       /\ ~dom[e].attached
       /\ Becomes(Changed([Begin EXCEPT !.dom[e].attached = TRUE], e))

\* the page detaches a video element
Detach ==
  /\ env.changes < MaxChanges
  /\ \E e \in Elems :
       /\ dom[e].attached
       /\ Becomes(Changed([Begin EXCEPT !.dom[e].attached = FALSE], e))

\* the page moves a video element
Move ==
  /\ env.changes < MaxChanges
  /\ \E e \in Elems, x \in Positions :
       /\ dom[e].attached
       /\ dom[e].left # x
       /\ Becomes(Changed([Begin EXCEPT !.dom[e].left = x], e))

\* the periodic scan (setInterval in startVideoDetection) or the debounced one
Scan ==
  /\ detector.interval
  /\ Becomes(Observed(scanForVideos(Emit(Begin, "timer", "scan", 0))))

Init == InitWith(<<StreamVideo, FileVideo>>)

Next ==
  \/ Start
  \/ Stop
  \/ Attach
  \/ Detach
  \/ Move
  \/ Scan
  \/ Tick
  \/ PollTimer
  \/ EngineStarted
  \/ EngineEnded

Spec == Init /\ [][Next]_vars

\* the pipeline and its teardown
NextStreams == Next \/ Destroy

SpecStreams == Init /\ [][NextStreams]_vars

\* AudioExtractor.stopExtraction(sourceId) called by a client of the extractor
StopExtraction ==
  \E id \in 1..extractor.nextSource :
    Becomes(stopExtraction(Emit(Begin, "call", "stopExtraction", id), id))

NextExtractor == Next \/ StopExtraction

SpecExtractor == Init /\ [][NextExtractor]_vars

-----------------------------------------------------------------------------
(* The extractor called directly, under the configurations a caller can give *)

\* a video element fed by a MediaStream whose audio tracks are all disabled
MutedVideo == [StreamVideo EXCEPT !.srcObject = "muted"]

\* a video element fed by a MediaStream without audio tracks
SilentVideo == [StreamVideo EXCEPT !.srcObject = "silent"]

\* AudioExtractionConfig: preferredMethod and fallbackMethods
ExtractionConfigs ==
  [preferredMethod : {"auto", "mediastream", "element", "capture"},
   fallbackMethods : {<<"mediastream", "element", "capture">>,
                      <<"element", "mediastream">>}]

\* extractions requested over a run
MaxExtractions == 3

\* a caller's extractAudioFromVideo(video) for a video element of the page
ExtractAudio ==
  /\ extractor.nextSource <= MaxExtractions
  /\ \E e \in Elems :
       /\ dom[e].attached
       /\ LET s == Emit(Begin, "call", "extractAudioFromVideo", e)
              r == extractAudioFromVideo(s, analyzeVideo(s, e))
          IN Becomes(Emit(r.s, "call", "returned", r.sourceId))

InitExtraction ==
  /\ speech = InitSpeech
  /\ engine = "idle"
  /\ timers = EmptyBag
  /\ \E config \in ExtractionConfigs :
       /\ orch = [InitOrch EXCEPT !.audioConfig = config]
       /\ extractor = [InitExtractor EXCEPT !.config = config]
  /\ detector = InitDetector
  /\ dom = <<[StreamVideo EXCEPT !.attached = TRUE],
             [FileVideo EXCEPT !.attached = TRUE],
             [MutedVideo EXCEPT !.attached = TRUE],
             [SilentVideo EXCEPT !.attached = TRUE]>>
  /\ ui = InitUI
  /\ script = InitScript
  /\ env = InitEnv
  /\ out = <<>>

NextExtraction ==
  \/ ExtractAudio
  \/ StopExtraction

SpecExtraction == InitExtraction /\ [][NextExtraction]_vars

-----------------------------------------------------------------------------
(* The detector's scans over a page whose video elements come, go and move; *)
(* three of the four elements are fed by streams and have the same src, and *)
(* two of those are at the same place when the detector is constructed      *)

InitDetection ==
  InitWith(<<[StreamVideo EXCEPT !.attached = TRUE],
             [MutedVideo EXCEPT !.attached = TRUE, !.left = 1],
             [SilentVideo EXCEPT !.attached = TRUE],
             FileVideo>>)

NextDetection ==
  \/ Attach
  \/ Detach
  \/ Move
  \/ Scan

SpecDetection == InitDetection /\ [][NextDetection]_vars

-----------------------------------------------------------------------------
(* The detector's scans while the audio tracks of the streams are switched   *)
(* on and off (MediaStreamTrack.enabled)                                     *)

\* the page enables or disables the audio tracks of an element's stream
ToggleAudioTrack ==
  /\ env.changes < MaxChanges
  /\ \E e \in Elems :
       /\ dom[e].attached
       /\ dom[e].srcObject \in {"audio", "muted"}
       /\ Becomes(Changed([Begin EXCEPT !.dom[e].srcObject =
                              IF @ = "audio" THEN "muted" ELSE "audio"], e))

InitTracks ==
  InitWith(<<[MutedVideo EXCEPT !.attached = TRUE],
             [StreamVideo EXCEPT !.attached = TRUE, !.left = 1]>>)

NextTracks ==
  \/ ToggleAudioTrack
  \/ Attach
  \/ Detach
  \/ Move
  \/ Scan

SpecTracks == InitTracks /\ [][NextTracks]_vars

-----------------------------------------------------------------------------
(* The pipeline while the caller changes the extraction settings *)

\* VideoToTextProcessor.updateConfig({audioConfig})
UpdateAudioConfig ==
  \E config \in ExtractionConfigs :
    /\ config # orch.audioConfig
    /\ Becomes(OrchUpdateAudioConfig(Emit(Begin, "call", "updateConfig", config),
                                      config))

NextConfig == Next \/ UpdateAudioConfig

SpecConfig == Init /\ [][NextConfig]_vars

-----------------------------------------------------------------------------
(* The pipeline, its results, and its teardown *)

InitDestroy == InitWith(<<[StreamVideo EXCEPT !.attached = TRUE]>>)

NextDestroy ==
  \/ Start
  \/ Stop
  \/ Detach
  \/ Scan
  \/ Tick
  \/ PollTimer
  \/ EngineStarted
  \/ EngineEnded
  \/ EngineResult
  \/ Destroy

SpecDestroy == InitDestroy /\ [][NextDestroy]_vars

-----------------------------------------------------------------------------
(* The speech session's results as the transcript overlay shows them *)

\* the fade-out timer of an interim entry fires
FadeOut ==
  \E i \in 1..Len(ui.overlay.shown) :
    /\ ~ui.overlay.shown[i].isFinal
    /\ Becomes(FadeOutCallback(Emit(Begin, "timer", "fadeOut", ui.overlay.shown[i].id),
                                ui.overlay.shown[i].id))

\* the overlay's clear button
ClearTranscripts ==
  /\ ui.overlay.shown # <<>>
  /\ Becomes(clearTranscriptsInternal(Emit(Begin, "call", "clearTranscripts", 0)))

NextOverlay ==
  \/ RequestRecognition
  \/ Tick
  \/ PollTimer
  \/ EngineStarted
  \/ EngineEnded
  \/ EngineResult
  \/ FadeOut
  \/ ClearTranscripts

SpecOverlay == InitTranscript /\ [][NextOverlay]_vars

-----------------------------------------------------------------------------
(* The transcript store and its queries, with the clock of Date.now()       *)

\* milliseconds the clock advances over a run
MaxClock == 2

\* time passes between two results
ClockAdvance ==
  /\ env.now < MaxClock
  /\ Becomes([Begin EXCEPT !.env.now = @ + 1])

\* a caller's getCurrentTranscripts(sessionId)
QueryOne ==
  \E sessionId \in {UnknownSession} \cup (1..MaxSessions) :
    LET s == Emit(Begin, "call", "getCurrentTranscripts", sessionId)
    IN Becomes(Emit(s, "call", "returned", getCurrentTranscripts(s, sessionId)))

\* a caller's getCurrentTranscripts()
QueryAll ==
  /\ LET s == Emit(Begin, "call", "getAllTranscripts", 0)
     IN Becomes(Emit(s, "call", "returned", getAllTranscripts(s)))

NextStore ==
  \/ RequestRecognition
  \/ EngineStarted
  \/ EngineEnded
  \/ EngineResult
  \/ ClockAdvance
  \/ QueryOne
  \/ QueryAll

SpecStore == InitTranscript /\ [][NextStore]_vars

-----------------------------------------------------------------------------
(* The detector's initialization and its retries *)

\* the program before the detector's constructor has called initialize()
Constructing ==
  [speech |-> InitSpeech, engine |-> "idle", timers |-> EmptyBag, orch |-> InitOrch,
   extractor |-> InitExtractor,
   detector |-> [InitDetector EXCEPT !.interval = FALSE],
   dom |-> <<[StreamVideo EXCEPT !.attached = TRUE]>>,
   ui |-> InitUI, script |-> InitScript, env |-> InitEnv, out |-> <<>>]

\* the state after construction: the first initialize() has failed or not
InitRetry ==
  \E fails \in BOOLEAN :
    LET t == initialize(Constructing, fails)
    IN /\ speech = t.speech
       /\ engine = t.engine
       /\ timers = t.timers
       /\ orch = t.orch
       /\ extractor = t.extractor
       /\ detector = t.detector
       /\ dom = t.dom
       /\ ui = t.ui
       /\ script = t.script
       /\ env = t.env
       /\ out = t.out

\* the timer of scheduleRetry fires: initialize() again
RetryTimer ==
  /\ BagIn(Due("retry"), timers)
  /\ \E fails \in BOOLEAN :
       Becomes(initialize(TakeTimer(Begin, "retry"), fails))

NextRetry ==
  \/ Tick
  \/ RetryTimer
  \/ PollTimer
  \/ Scan
  \/ EngineStarted

SpecRetry == InitRetry /\ [][NextRetry]_vars

-----------------------------------------------------------------------------
(* The detector from its construction to its destruction, with the scans    *)
(* that its mutation observer debounces                                      *)

\* DETECTION_SETTINGS.MUTATION_OBSERVER_THROTTLE, ms
MUTATION_OBSERVER_THROTTLE == 100

\* debouncedScan(): clearTimeout(timeout), then setTimeout(func, wait)
debouncedScan(s) ==
  LET kept == {t \in BagToSet(s.timers) : t.kind # "debounce"}
      s1 == [s EXCEPT !.timers = [t \in kept |-> s.timers[t]]]
  IN SetTimer(s1, "debounce", MUTATION_OBSERVER_THROTTLE)

\* the page adds or removes a video element; the mutation observer, while it
\* is connected, sees the change and asks for a debounced scan
Mutation ==
  /\ env.changes < MaxChanges
  /\ \E e \in Elems :
       LET s == Changed(Emit([Begin EXCEPT !.dom[e].attached = ~@],
                             "page", "mutation", e), e)
       IN Becomes(IF s.detector.interval THEN debouncedScan(s) ELSE s)

\* the timer of the debounced scan fires: scanForVideos()
DebounceTimer ==
  /\ BagIn(Due("debounce"), timers)
  /\ Becomes(Observed(scanForVideos(TakeTimer(Begin, "debounce"))))

NextTeardown ==
  \/ Mutation
  \/ Tick
  \/ RetryTimer
  \/ DebounceTimer
  \/ PollTimer
  \/ Scan
  \/ Destroy

SpecTeardown == InitRetry /\ [][NextTeardown]_vars

-----------------------------------------------------------------------------
(* The detector's scans over candidates that come to qualify, or cease to   *)

\* intrinsic sizes, durations (s) a video element takes, around the thresholds
Widths == {0, MIN_WIDTH - 1, MIN_WIDTH}
Heights == {0, MIN_HEIGHT - 1, MIN_HEIGHT}
Durations == {0, MIN_DURATION, MIN_DURATION + 1}

\* the page or the player changes a property of an attached video element
ChangeVideo ==
  /\ env.changes < MaxChanges
  /\ \E e \in Elems :
       /\ dom[e].attached
       /\ \E el \in {[dom[e] EXCEPT !.videoWidth = w] : w \in Widths}
                  \cup {[dom[e] EXCEPT !.videoHeight = h] : h \in Heights}
                  \cup {[dom[e] EXCEPT !.duration = d] : d \in Durations}
                  \cup {[dom[e] EXCEPT !.isPlaying = ~@],
                         [dom[e] EXCEPT !.isVisible = ~@]} :
            /\ el # dom[e]
            /\ Becomes(Changed([Begin EXCEPT !.dom[e] = el], e))

\* a paused stream that has not loaded, and a file in a small, hidden player
InitValidity ==
  InitWith(<<[StreamVideo EXCEPT !.attached = TRUE, !.isPlaying = FALSE],
             [FileVideo EXCEPT !.attached = TRUE, !.isVisible = FALSE,
                               !.videoWidth = 0, !.clientWidth = MIN_WIDTH - 1]>>)

NextValidity ==
  \/ ChangeVideo
  \/ Scan

SpecValidity == InitValidity /\ [][NextValidity]_vars

-----------------------------------------------------------------------------
(* The pipeline from the construction of the orchestrator on, while the     *)
(* control panel and then the UI manager register their listeners           *)

\* new ControlPanel(processor, ...) in UIManager.createComponents
CreateControlPanel ==
  /\ \A e \in UIEvents : ui.slots[e] = "none"
  /\ Becomes(ControlPanelAttach(Emit(Begin, "call", "ControlPanel", 0)))

\* UIManager.setupEventListeners, after createComponents
SetupUIManager ==
  /\ \A e \in UIEvents : ui.slots[e] = "controlPanel"
  /\ Becomes(UIManagerSetup(Emit(Begin, "call", "setupEventListeners", 0)))

InitListeners ==
  /\ speech = InitSpeech
  /\ engine = "idle"
  /\ timers = EmptyBag
  /\ orch = InitOrch
  /\ extractor = InitExtractor
  /\ detector = InitDetector
  /\ dom = <<[StreamVideo EXCEPT !.attached = TRUE]>>
  /\ ui = [InitUI EXCEPT !.slots = [e \in UIEvents |-> "none"]]
  /\ script = InitScript
  /\ env = InitEnv
  /\ out = <<>>

NextListeners ==
  \/ CreateControlPanel
  \/ SetupUIManager
  \/ Start
  \/ Attach
  \/ Detach
  \/ Scan
  \/ EngineStarted
  \/ EngineEnded
  \/ EngineResult

SpecListeners == InitListeners /\ [][NextListeners]_vars

-----------------------------------------------------------------------------
(* The content script: the extension instance it holds in `extension`, over  *)
(* the initial load, navigations inside the page, and the unload             *)

\* setTimeout(..., 1000) in the navigation handler, ms
REINIT_DELAY == 1000

\* navigations inside the page over a run
MaxNavigations == 2

\* extension = new MeetingTranslatorExtension()
NewExtension(s) ==
  LET id == Len(s.script.instances) + 1
  IN Emit([s EXCEPT !.script.instances = Append(@, "live"),
                    !.script.extension = id],
          "script", "created", id)

\* if (extension) { extension.destroy(); extension = null; }
DestroyExtension(s) ==
  IF s.script.extension = 0 THEN s
  ELSE Emit([s EXCEPT !.script.instances[s.script.extension] = "destroyed",
                      !.script.extension = 0],
            "script", "destroyed", s.script.extension)

\* initializeExtension, once the document is no longer loading
initializeExtension(s) ==
  IF s.script.extension # 0 THEN s ELSE NewExtension(s)

\* the urlObserver callback when location.href has changed
urlObserverCallback(s) ==
  SetTimer(DestroyExtension([s EXCEPT !.script.navigations = @ + 1]),
           "reinit", REINIT_DELAY)

\* DOMContentLoaded: initializeExtension runs again
DomContentLoaded ==
  /\ script.loading
  /\ Becomes(initializeExtension(
               Emit([Begin EXCEPT !.script.loading = FALSE],
                    "page", "DOMContentLoaded", 0)))

\* the page navigates without a reload and changes the document
Navigate ==
  /\ script.navigations < MaxNavigations
  /\ Becomes(urlObserverCallback(Emit(Begin, "page", "navigation", 0)))

\* the timer of the navigation handler fires
ReinitTimer ==
  /\ BagIn(Due("reinit"), timers)
  /\ Becomes(NewExtension(TakeTimer(Begin, "reinit")))

\* beforeunload
BeforeUnload ==
  /\ script.extension # 0
  /\ Becomes(DestroyExtension(Emit(Begin, "page", "beforeunload", 0)))

\* the content script has run to its end: initializeExtension() was called
\* while the document was loading, or after
InitNavigation ==
  /\ speech = InitSpeech
  /\ engine = "idle"
  /\ timers = EmptyBag
  /\ orch = InitOrch
  /\ extractor = InitExtractor
  /\ detector = InitDetector
  /\ dom = <<>>
  /\ ui = InitUI
  /\ script \in {[extension |-> 0, instances |-> <<>>, navigations |-> 0,
                   loading |-> TRUE],
                  [extension |-> 1, instances |-> <<"live">>, navigations |-> 0,
                   loading |-> FALSE]}
  /\ env = InitEnv
  /\ out = <<>>

NextNavigation ==
  \/ DomContentLoaded
  \/ Navigate
  \/ Tick
  \/ ReinitTimer
  \/ BeforeUnload

SpecNavigation == InitNavigation /\ [][NextNavigation]_vars

-----------------------------------------------------------------------------
(* Audio chunks of an extracted video and the speech session *)

\* audio buffers the script processors deliver over a run
MaxChunks == 11

\* processor.onaudioprocess of a source whose script processor is connected;
\* chunks are numbered in the order they arrive
AudioChunk ==
  /\ env.chunks < MaxChunks
  /\ \E sourceId \in extractor.processors :
       Becomes(processAudioBuffer([Begin EXCEPT !.env.chunks = @ + 1],
                                  sourceId, env.chunks + 1))

InitChunks == InitWith(<<[StreamVideo EXCEPT !.attached = TRUE]>>)

NextChunks ==
  \/ Scan
  \/ RequestRecognition
  \/ Tick
  \/ PollTimer
  \/ EngineStarted
  \/ EngineEnded
  \/ AudioChunk

SpecChunks == InitChunks /\ [][NextChunks]_vars

-----------------------------------------------------------------------------
(* Properties *)

Has(q, who, ev) == \E i \in 1..Len(q) : q[i].who = who /\ q[i].ev = ev

\* the result list of the engine result event the step handled (the step is
\* known to be one)
ResultsOf(q) == q[1].arg

IsResultStep(q) == Len(q) > 0 /\ q[1].who = "engine" /\ q[1].ev = "onresult"

\* the entry of a result list the handler reads
Latest(results) == results[Len(results)]

\* all entries of the transcript store, session after session
RECURSIVE AllStored(_)
AllStored(ct) ==
  IF ct = <<>> THEN <<>> ELSE Head(ct).results \o AllStored(Tail(ct))

Created(ct1, ct2) == StoredCount(ct2) - StoredCount(ct1)

\* C1: a final result below the configured confidence threshold creates no
\* entry in the orchestrator's transcript store, a final result at or above
\* it creates exactly one, and nothing but a result event creates an entry
\* (a result is the entry of the engine event that the handler reads).
ThmC1 ==
  [][LET created == Created(orch.currentTranscripts, orch'.currentTranscripts)
     IN IF IsResultStep(out') /\ ResultsOf(out') # <<>>
        THEN LET latest == Latest(ResultsOf(out'))
             IN latest.isFinal =>
                  created = IF ConfidenceOrZero(latest.confidence)
                               < speech.confidenceThreshold THEN 0 ELSE 1
        ELSE created = 0]_vars

\* a final result below the threshold has just been dropped while the store
\* holds a final result accepted earlier
WitC1 ==
  /\ IsResultStep(out)
  /\ ResultsOf(out) # <<>>
  /\ Latest(ResultsOf(out)).isFinal
  /\ ConfidenceOrZero(Latest(ResultsOf(out)).confidence) < speech.confidenceThreshold
  /\ \E i \in 1..Len(AllStored(orch.currentTranscripts)) :
       AllStored(orch.currentTranscripts)[i].isFinal

HasArg(q, who, ev, arg) ==
  \E i \in 1..Len(q) : q[i].who = who /\ q[i].ev = ev /\ q[i].arg = arg

\* the step was the public call `name`
IsCall(q, name) == Len(q) > 0 /\ q[1].who = "call" /\ q[1].ev = name

\* the elements whose audio some active stream of the extractor carries
StreamedElements ==
  {extractor.activeStreams[i].element : i \in 1..Len(extractor.activeStreams)}

\* C3 as stated: once the detector has emitted videoRemoved for a video (and
\* has not detected the same element anew in that scan), no active stream and
\* so no map entry remains for that video.
CexC3 ==
  \A e \in 1..Len(dom) :
    (HasArg(out, "detector", "videoRemoved", e)
       /\ ~HasArg(out, "detector", "videoDetected", e))
      => e \notin StreamedElements

\* C4 as stated: while the orchestrator is not running, a video-detected
\* event creates no audio source and starts no recognition session.
CexC4 ==
  (Has(out, "detector", "videoDetected") /\ ~orch.isProcessing)
    => /\ ~Has(out, "extractor", "streamStart")
       /\ ~Has(out, "orch", "audioStarted")
       /\ ~Has(out, "engine", "start")

\* C5 as stated: stopExtraction on a source id that is not active changes no
\* extractor state, emits no stream-ended notification and leaves the
\* orchestrator's audioStreamsActive count unchanged.
CexC5 ==
  [][(IsCall(out', "stopExtraction") /\ out'[1].arg \notin ActiveStreamIds(State))
       => /\ extractor' = extractor
          /\ ~Has(out', "extractor", "streamEnd")
          /\ orch'.stats.audioStreamsActive = orch.stats.audioStreamsActive]_vars

\* C6: a stop() that directly follows a stop() raises no error, leaves the
\* orchestrator (active flag, video-to-source map, stats), the extractor and
\* the speech session as the first call left them, and emits no status-changed
\* notification.
ThmC6 ==
  [][(IsCall(out, "stop") /\ IsCall(out', "stop"))
       => /\ orch' = orch
          /\ extractor' = extractor
          /\ speech' = speech
          /\ engine' = engine
          /\ timers' = timers
          /\ ~Has(out', "orch", "statusChange")
          /\ ~Has(out', "orch", "error")]_vars

\* a stop() that did nothing, on a processor that an earlier stop() left with
\* its sources torn down and its engine still stopping
WitC6 ==
  /\ out = <<[who |-> "call", ev |-> "stop", arg |-> 0]>>
  /\ ~orch.isProcessing
  /\ engine = "stopping"
  /\ extractor.nextSource > 1

\* C7 as stated: after a stop() of the running orchestrator every audio
\* source has been stopped in the extractor, the video-to-source map is empty
\* and getStats() reports audioStreamsActive = 0.
CexC7 ==
  (IsCall(out, "stop") /\ Has(out, "orch", "statusChange"))
    => /\ extractor.activeStreams = <<>>
       /\ orch.activeVideoSources = <<>>
       /\ orch.stats.audioStreamsActive = 0

\* C8 as stated: the restart that a no-speech error schedules issues a new
\* engine start when its delay has elapsed.
CexC8 ==
  Has(out, "timer", "restart") => Has(out, "engine", "start")

\* C9 as stated: a no-speech engine error reaches neither the speech
\* session's error listener nor the orchestrator's error notification.
CexC9 ==
  (Has(out, "engine", "onerror") /\ out[1].arg = "no-speech")
    => ~Has(out, "speech", "error") /\ ~Has(out, "orch", "error")

\* C10 as stated: the reconnect attempt that a network error schedules
\* issues exactly one engine start when its delay has elapsed.
CexC10 ==
  Has(out, "timer", "reconnect") => Count(out, "engine", "start") = 1

IsErrorStep(q) == Len(q) > 0 /\ q[1].who = "engine" /\ q[1].ev = "onerror"

TerminalErrors == {"audio-capture", "not-allowed"}

\* C11: an audio-capture or not-allowed engine error reaches the speech
\* session's error listener (and through it the caller) exactly once, sets no
\* restart or reconnect timer and issues no engine start; an engine start is
\* only ever issued by a step in which the caller asks for recognition.
ThmC11 ==
  [][/\ (IsErrorStep(out') /\ out'[1].arg \in TerminalErrors)
          => /\ Count(out', "speech", "error") = 1
             /\ Count(out', "orch", "error") = 1
             /\ timers' = timers
             /\ ~Has(out', "engine", "start")
     /\ Has(out', "engine", "start") => IsCall(out', "startRecognition")]_vars

\* a not-allowed error has just been reported while the session was listening
WitC11 ==
  /\ IsErrorStep(out)
  /\ out[1].arg = "not-allowed"
  /\ Has(out, "speech", "error")
  /\ speech.isActive

\* C12: startRecognition() on a session that is listening resolves with the
\* existing session id, issues no engine start, sets no timer and changes
\* nothing of the session or the orchestrator.
ThmC12 ==
  [][(IsCall(out', "startRecognition") /\ speech.isActive)
       => /\ HasArg(out', "speech", "startResolved", speech.currentSession)
          /\ speech.currentSession # NullSession
          /\ ~Has(out', "engine", "start")
          /\ ~Has(out', "engine", "startThrows")
          /\ speech' = speech
          /\ engine' = engine
          /\ timers' = timers
          /\ orch' = orch]_vars

\* the call has just resolved at once with the id of the listening session
WitC12 ==
  /\ IsCall(out, "startRecognition")
  /\ Len(out) = 2
  /\ speech.isActive
  /\ HasArg(out, "speech", "startResolved", speech.currentSession)

\* C13: the session id leaves null only in the step that handles the engine's
\* start event, where it takes a fresh id; every resolution of
\* startRecognition() carries the current session id, which is not null, so no
\* call resolves before the engine has signalled the start.
ThmC13 ==
  [][/\ (speech.currentSession = NullSession /\ speech'.currentSession # NullSession)
          => /\ Has(out', "engine", "onstart")
             /\ HasArg(out', "speech", "start", speech'.currentSession)
             /\ speech'.currentSession = speech.nextSid
     /\ \A i \in 1..Len(out') :
          (out'[i].who = "speech" /\ out'[i].ev = "startResolved")
            => /\ out'[i].arg # NullSession
               /\ out'[i].arg = speech'.currentSession]_vars

\* a pending call has just resolved from its polling timer
WitC13 ==
  /\ Has(out, "timer", "poll")
  /\ Has(out, "speech", "startResolved")
  /\ speech.currentSession # NullSession

IsChunkStep(q) == Len(q) > 0 /\ q[1].who = "extractor" /\ q[1].ev = "audioChunk"

Elements(q) == {q[i] : i \in 1..Len(q)}

\* C14: a chunk that arrives while the session is listening is handed to the
\* session, a chunk that arrives while it is not listening leaves the session
\* untouched, and the session never comes to hold a chunk other than the one
\* arriving in the current step: a dropped chunk is not delivered later.
ThmC14 ==
  [][/\ IsChunkStep(out')
          => IF speech.isActive
             THEN /\ Len(speech'.pendingChunks) > 0
                  /\ speech'.pendingChunks[Len(speech'.pendingChunks)] = out'[1].arg
             ELSE speech' = speech
     /\ Elements(speech'.pendingChunks) \subseteq
          Elements(speech.pendingChunks)
            \cup (IF IsChunkStep(out') /\ speech.isActive THEN {out'[1].arg} ELSE {})]_vars

\* a chunk has just been dropped by a session that is listening no more, after
\* an earlier chunk was forwarded, and a chunk has been dropped before that
WitC14 ==
  /\ IsChunkStep(out)
  /\ ~speech.isActive
  /\ speech.pendingChunks # <<>>
  /\ out[1].arg \notin Elements(speech.pendingChunks)
  /\ 1 \notin Elements(speech.pendingChunks)

\* the methods a step attempted, in the order it attempted them
Attempts(q) ==
  LET tried == SelectSeq(q, LAMBDA x : x.who = "extractor" /\ x.ev = "attempt")
  IN [i \in 1..Len(tried) |-> tried[i].arg]

\* what extractAudioFromVideo returned in the step, 0 for null
Returned(q) == q[Len(q)].arg

\* the priority order of a configuration: the fallback list as it is under
\* "auto", else the preferred method and then the other fallbacks
PriorityOrder(config) ==
  IF config.preferredMethod = "auto" THEN config.fallbackMethods
  ELSE <<config.preferredMethod>> \o
       SelectSeq(config.fallbackMethods, LAMBDA m : m # config.preferredMethod)

StreamsOf(streams, sourceId) ==
  {i \in 1..Len(streams) : streams[i].sourceId = sourceId}

\* C15: extractAudioFromVideo attempts the methods in the priority order of
\* its configuration, each method at most once, going on after every failed
\* attempt and stopping at the first success; when every method has failed
\* it returns null, registers no stream and emits exactly one error event.
ThmC15 ==
  [][IsCall(out', "extractAudioFromVideo")
       => LET order == PriorityOrder(extractor.config)
              tried == Attempts(out')
              failed == Count(out', "extractor", "methodFailed")
          IN /\ Len(tried) <= Len(order)
             /\ tried = SubSeq(order, 1, Len(tried))
             /\ \A i, j \in 1..Len(tried) : i # j => tried[i] # tried[j]
             /\ extractor.config = InitExtractor.config
                  => order = <<"mediastream", "element", "capture">>
             /\ IF Returned(out') # 0
                THEN /\ failed = Len(tried) - 1
                     /\ ~Has(out', "extractor", "error")
                     /\ \E i \in StreamsOf(extractor'.activeStreams, Returned(out')) :
                          extractor'.activeStreams[i].method = tried[Len(tried)]
                ELSE /\ tried = order
                     /\ failed = Len(order)
                     /\ extractor'.activeStreams = extractor.activeStreams
                     /\ Count(out', "extractor", "error") = 1]_vars

\* every method has just failed for a video, under a configuration that
\* names a preferred method
WitC15 ==
  /\ IsCall(out, "extractAudioFromVideo")
  /\ Returned(out) = 0
  /\ Count(out, "extractor", "methodFailed") = 3
  /\ Has(out, "extractor", "error")
  /\ extractor.config.preferredMethod = "element"

\* C16: when the first method attempted fails and a later one succeeds,
\* extractAudioFromVideo returns a source id under which exactly one stream is
\* registered, and the only audio node the call has created is the source
\* node of the method that succeeded.
ThmC16 ==
  [][(IsCall(out', "extractAudioFromVideo")
        /\ Has(out', "extractor", "methodFailed")
        /\ Has(out', "extractor", "streamStart"))
       => LET id == Returned(out')
              tried == Attempts(out')
          IN /\ id # 0
             /\ id \notin ActiveStreamIds(State)
             /\ Cardinality(StreamsOf(extractor'.activeStreams, id)) = 1
             /\ Len(extractor'.activeStreams) = Len(extractor.activeStreams) + 1
             /\ extractor'.nodes =
                  extractor.nodes
                    \cup {[sourceId |-> id, method |-> tried[Len(tried)]]}
             /\ extractor'.processors = extractor.processors \cup {id}]_vars

\* the element method has just succeeded after the media-stream method failed
WitC16 ==
  /\ IsCall(out, "extractAudioFromVideo")
  /\ Has(out, "extractor", "methodFailed")
  /\ Returned(out) # 0
  /\ [sourceId |-> Returned(out), method |-> "element"] \in extractor.nodes

\* C17 as stated: a stream registered by the media-stream method belongs to a
\* video whose MediaStream has an enabled audio track.
CexC17 ==
  \A i \in 1..Len(extractor.activeStreams) :
    extractor.activeStreams[i].method = "mediastream"
      => dom[extractor.activeStreams[i].element].srcObject = "audio"

IsScanStep(q) == Len(q) > 0 /\ q[1].who = "timer" /\ q[1].ev = "scan"

\* the elements a step reported through the detector's videoDetected
DetectedIn(q) == {e \in 1..Len(dom) : HasArg(q, "detector", "videoDetected", e)}

\* how often a step emitted the detector event ev for element e
CountArg(q, who, ev, arg) ==
  Cardinality({i \in 1..Len(q) : q[i].who = who /\ q[i].ev = ev /\ q[i].arg = arg})

\* C18: a video detected without audio (a stream with no audio track, or with
\* every audio track disabled) is observed but never extracted: no extraction
\* call is made for it and no stream carries its element; when no video with
\* audio is detected in the same scan, the map, the extractor and
\* audioStreamsActive stay as they were.
ThmC18 ==
  [][LET silent == {e \in DetectedIn(out') : ~hasAudioTrack(dom'[e])}
     IN /\ \A e \in silent :
             /\ HasArg(out', "orch", "videoDetected", e)
             /\ ~HasArg(out', "extractor", "extractAudioFromVideo", e)
             /\ \A i \in 1..Len(extractor'.activeStreams) :
                  extractor'.activeStreams[i].element # e
        /\ (silent # {} /\ silent = DetectedIn(out'))
             => /\ orch'.activeVideoSources = orch.activeVideoSources
                /\ extractor' = extractor
                /\ orch'.stats.audioStreamsActive = orch.stats.audioStreamsActive
                /\ ~Has(out', "engine", "start")]_vars

\* a scan has just reported the video with disabled tracks and the one
\* without tracks, and nothing has been extracted
WitC18 ==
  /\ IsScanStep(out)
  /\ {e \in DetectedIn(out) : ~hasAudioTrack(dom[e])} # {}
  /\ \E e \in DetectedIn(out) : dom[e].srcObject = "muted"
  /\ orch.stats.videosDetected > 0
  /\ orch.stats.audioStreamsActive = 0
  /\ extractor.nextSource = 1

\* C19: a scan reports through videoDetected only elements that have changed
\* (been attached, detached or moved) since they were last reported, and
\* reports an element at most once: an element that stays in the page
\* unchanged is not reported again, however many scans follow.
ThmC19 ==
  [][\A e \in 1..Len(dom) :
       /\ CountArg(out', "detector", "videoDetected", e) <= 1
       /\ HasArg(out', "detector", "videoDetected", e) => e \notin env.reported]_vars

\* a scan has just run over an element reported earlier and unchanged since,
\* and has reported nothing
WitC19 ==
  /\ IsScanStep(out)
  /\ ~Has(out, "detector", "videoDetected")
  /\ \E e \in env.reported : dom[e].attached

DetectedIds(dv) == {dv[i].videoId : i \in 1..Len(dv)}

\* C20: a scan takes every detected video (entry of detectedVideos) whose
\* element is detached from the document out of detectedVideos and emits
\* videoRemoved once for each entry it takes out and for nothing else, so
\* exactly once for a detected video that was detached and only for videos
\* reported detected and not removed yet.
ThmC20 ==
  [][IsScanStep(out')
       => LET before == detector.detectedVideos
              after == detector'.detectedVideos
              gone == DetectedIds(before) \ DetectedIds(after)
              goneOf(e) == {i \in 1..Len(before) :
                              /\ before[i].video.element = e
                              /\ before[i].videoId \in gone}
          IN /\ \A i \in 1..Len(before) :
                  ~dom[before[i].video.element].attached
                    => /\ before[i].videoId \in gone
                       /\ HasArg(out', "detector", "videoRemoved",
                                 before[i].video.element)
             /\ Count(out', "detector", "videoRemoved") = Cardinality(gone)
             /\ \A e \in 1..Len(dom) :
                  CountArg(out', "detector", "videoRemoved", e)
                    = Cardinality(goneOf(e))]_vars

\* a scan has just emitted videoRemoved for a detached element
WitC20 ==
  /\ IsScanStep(out)
  /\ \E e \in 1..Len(dom) :
       /\ ~dom[e].attached
       /\ HasArg(out, "detector", "videoRemoved", e)
       /\ \A i \in 1..Len(detector.detectedVideos) :
            detector.detectedVideos[i].video.element # e

\* the method of the first extraction attempt of a step
FirstAttempt(q) == Attempts(q)[1]

\* C21 as stated: an extraction attempted after updateConfig({audioConfig})
\* goes by the settings the orchestrator was last given: its first attempt is
\* the first method of their priority order.
CexC21 ==
  (IsScanStep(out) /\ Has(out, "extractor", "attempt"))
    => FirstAttempt(out) = PriorityOrder(orch.audioConfig)[1]

\* C22: destroy() leaves the orchestrator stopped with an empty
\* video-to-source map and an empty transcript store, the detector without
\* videos and without its scan interval, the extractor without stream,
\* processor or node, and the speech session inactive, without session id and
\* without engine handle, whatever the state it is called in; it raises no
\* error, and a destroy() that directly follows a destroy() changes nothing
\* and notifies nobody.
ThmC22 ==
  [][IsCall(out', "destroy")
       => /\ ~orch'.isProcessing
          /\ ~orch'.stats.isActive
          /\ orch'.activeVideoSources = <<>>
          /\ orch'.currentTranscripts = <<>>
          /\ detector'.detectedVideos = <<>>
          /\ ~detector'.interval
          /\ extractor'.activeStreams = <<>>
          /\ extractor'.processors = {}
          /\ extractor'.nodes = {}
          /\ ~extractor'.isInitialized
          /\ ~speech'.isActive
          /\ speech'.currentSession = NullSession
          /\ ~speech'.recognition
          /\ ~Has(out', "orch", "error")
          /\ Count(out', "extractor", "streamEnd") = Len(extractor.activeStreams)
          /\ (orch.isProcessing /\ orch.listeners) => Has(out', "orch", "statusChange")
          /\ IsCall(out, "destroy")
               => /\ Len(out') = 1
                  /\ orch' = orch
                  /\ extractor' = extractor
                  /\ detector' = detector
                  /\ speech' = speech
                  /\ engine' = engine
                  /\ timers' = timers
                  /\ dom' = dom]_vars

\* destroy() has just stopped the running orchestrator, ended a stream and
\* stopped the engine of a listening session
WitC22 ==
  /\ IsCall(out, "destroy")
  /\ Has(out, "call", "destroy")
  /\ Count(out, "orch", "statusChange") >= 2
  /\ Has(out, "extractor", "streamEnd")
  /\ Has(out, "engine", "stop")
  /\ extractor.activeStreams = <<>>
  /\ ~speech.isActive

\* the interim entries the overlay shows
LiveInterims(overlay) ==
  {i \in 1..Len(overlay.shown) : ~overlay.shown[i].isFinal}

\* C23: the overlay shows at most one interim entry, the one it holds as
\* current; a result delivered to it, interim or final, takes the interim
\* shown before out of the list; and the overlay's transcripts (what its
\* count and getFinalTranscripts are computed from) hold final entries only,
\* one more for each final result and none for an interim.
ThmC23 ==
  [][/\ Cardinality(LiveInterims(ui'.overlay)) <= 1
     /\ \A i \in LiveInterims(ui'.overlay) :
          ui'.overlay.shown[i].id = ui'.overlay.currentInterimId
     /\ \A i \in 1..Len(ui'.overlay.transcripts) : ui'.overlay.transcripts[i].isFinal
     /\ Has(out', "uiManager", "transcription")
          => /\ \A i \in LiveInterims(ui.overlay) :
                  \A j \in 1..Len(ui'.overlay.shown) :
                    ui'.overlay.shown[j].id # ui.overlay.shown[i].id
             /\ Len(ui'.overlay.transcripts) =
                  Len(ui.overlay.transcripts)
                    + (IF Latest(ResultsOf(out')).isFinal THEN 1 ELSE 0)
             /\ Cardinality(LiveInterims(ui'.overlay)) =
                  (IF Latest(ResultsOf(out')).isFinal THEN 0 ELSE 1)]_vars

\* the second interim result of a session has just been delivered, and the
\* overlay shows it alone
WitC23 ==
  /\ Has(out, "uiManager", "transcription")
  /\ ~Latest(ResultsOf(out)).isFinal
  /\ Len(AllStored(orch.currentTranscripts)) = 2
  /\ \A i \in 1..2 : ~AllStored(orch.currentTranscripts)[i].isFinal
  /\ Len(orch.currentTranscripts) = 1
  /\ ui.overlay.shown =
       <<[id |-> 2, isFinal |-> FALSE, sessionId |-> out[1 + 2].arg]>>

IsPrefix(p, q) == Len(p) <= Len(q) /\ SubSeq(q, 1, Len(p)) = p

NonDecreasing(q) ==
  \A i, j \in 1..Len(q) : i < j => q[i].timestamp <= q[j].timestamp

\* the list a session has in a transcript store
ResultsFor(ct, sessionId) ==
  getCurrentTranscripts([State EXCEPT !.orch.currentTranscripts = ct], sessionId)

StoredSessions(ct) == {ct[i].sessionId : i \in 1..Len(ct)}

\* C24: the list getCurrentTranscripts(sessionId) returns for a session only
\* ever grows at its end (so it is in arrival order and is never reordered),
\* a result that is stored becomes the last entry of its session's list, the
\* timestamps of a list never decrease along it, and both queries leave the
\* store as it is, the one without an id returning a sorted list of their own.
ThmC24 ==
  [][LET before == orch.currentTranscripts
         after == orch'.currentTranscripts
     IN /\ \A sid \in StoredSessions(before) :
             IsPrefix(ResultsFor(before, sid), ResultsFor(after, sid))
        /\ \A sid \in StoredSessions(after) : NonDecreasing(ResultsFor(after, sid))
        /\ Has(out', "orch", "transcription")
             => LET sid == out'[2].arg
                    list == ResultsFor(after, sid)
                IN /\ Len(list) = Len(ResultsFor(before, sid)) + 1
                   /\ list[Len(list)].timestamp = env'.now
                   /\ list[Len(list)].isFinal = Latest(ResultsOf(out')).isFinal
        /\ IsCall(out', "getCurrentTranscripts")
             => /\ after = before
                /\ Returned(out') = ResultsFor(before, out'[1].arg)
        /\ IsCall(out', "getAllTranscripts")
             => /\ after = before
                /\ NonDecreasing(Returned(out'))
                /\ Len(Returned(out')) = StoredCount(before)]_vars

\* a session's list holds a result and a later one with a later timestamp,
\* and the merged query has just returned
WitC24 ==
  /\ IsCall(out, "getAllTranscripts")
  /\ Len(Returned(out)) = 2
  /\ \E sid \in StoredSessions(orch.currentTranscripts) :
       LET list == ResultsFor(orch.currentTranscripts, sid)
       IN Len(list) = 2 /\ list[1].timestamp < list[2].timestamp

\* the active streams of the extractor that carry the audio of element e
StreamsOfElement(e) ==
  {i \in 1..Len(extractor.activeStreams) : extractor.activeStreams[i].element = e}

\* C25 as stated: every video element has at most one active audio source in
\* the extractor.
CexC25 ==
  \A e \in 1..Len(dom) : Cardinality(StreamsOfElement(e)) <= 1

\* the retry timers that are pending
RetryTimers(ts) == {x \in BagToSet(ts) : x.kind = "retry"}

\* C26: the detector schedules a retry only when an initialize() has failed,
\* at most MAX_RETRY_ATTEMPTS of them over its life, the k-th with a delay of
\* RETRY_INTERVAL * k ms and never two at a time; when initialize() fails
\* with MAX_RETRY_ATTEMPTS retries spent it schedules none, and from then on
\* no retry is pending and none is scheduled.
ThmC26 ==
  /\ [](/\ detector.retryCount <= MAX_RETRY_ATTEMPTS
        /\ \A x \in RetryTimers(timers) :
             /\ timers[x] = 1
             /\ x.rem <= Ticks(RETRY_INTERVAL * detector.retryCount)
        /\ Cardinality(RetryTimers(timers)) <= 1
        /\ Has(out, "detector", "retryScheduled")
             => /\ HasArg(out, "detector", "initialize", TRUE)
                /\ HasArg(out, "detector", "retryScheduled",
                          RETRY_INTERVAL * detector.retryCount)
                /\ BagIn([kind |-> "retry",
                          rem |-> Ticks(RETRY_INTERVAL * detector.retryCount)], timers)
        /\ Has(out, "detector", "giveUp")
             => /\ detector.retryCount = MAX_RETRY_ATTEMPTS
                /\ RetryTimers(timers) = {}
                /\ ~detector.interval)
  /\ [][/\ detector'.retryCount \in {detector.retryCount, detector.retryCount + 1}
        /\ detector'.retryCount = detector.retryCount + 1
             <=> Has(out', "detector", "retryScheduled")
        /\ (detector.retryCount = MAX_RETRY_ATTEMPTS /\ RetryTimers(timers) = {})
             => /\ RetryTimers(timers') = {}
                /\ ~Has(out', "detector", "initialize")
                /\ detector'.interval = detector.interval]_vars

\* the fifth retry has just failed and the detector has given up
WitC26 ==
  /\ Has(out, "timer", "retry")
  /\ Has(out, "detector", "giveUp")
  /\ detector.retryCount = MAX_RETRY_ATTEMPTS
  /\ ~detector.interval

\* the validity conditions on an element of the page: the width and height
\* the detector reads (the intrinsic size, else the size of the box)
Qualifies(el) ==
  /\ (IF el.videoWidth # 0 THEN el.videoWidth ELSE el.clientWidth) >= 160
  /\ (IF el.videoHeight # 0 THEN el.videoHeight ELSE el.clientHeight) >= 120
  /\ el.isVisible
  /\ (el.isPlaying \/ el.duration > 1)

\* C27: a scan adds an element to the live set and reports it only if it is
\* at least 160 x 120, visible, and playing or longer than 1 s; a scan over
\* candidates that all fail this emits nothing, raises no error and changes
\* nothing; and a candidate is evaluated again by every scan: once it
\* qualifies, the scan that follows takes its id into the live set and
\* reports it (or the element before it in the document that has the same id).
ThmC27 ==
  [][IsScanStep(out')
       => LET idsBefore == DetectedIds(detector.detectedVideos)
              idsAfter == DetectedIds(detector'.detectedVideos)
              attached == {e \in 1..Len(dom) : dom[e].attached}
          IN /\ \A e \in DetectedIn(out') : dom[e].attached /\ Qualifies(dom[e])
             /\ \A i \in 1..Len(detector'.detectedVideos) :
                  \/ detector'.detectedVideos[i].videoId \in idsBefore
                  \/ /\ Qualifies(dom[detector'.detectedVideos[i].video.element])
                     /\ detector'.detectedVideos[i].video.element \in DetectedIn(out')
             /\ \A e \in attached :
                  (Qualifies(dom[e]) /\ DetectorVideoId(dom[e]) \notin idsBefore)
                    => /\ DetectorVideoId(dom[e]) \in idsAfter
                       /\ \E e2 \in DetectedIn(out') :
                            DetectorVideoId(dom[e2]) = DetectorVideoId(dom[e])
             /\ (\A e \in attached : ~Qualifies(dom[e]))
                  => /\ ~Has(out', "detector", "videoDetected")
                     /\ ~Has(out', "orch", "error")
                     /\ idsAfter \subseteq idsBefore
                     /\ orch' = orch
                     /\ extractor' = extractor]_vars

\* a scan has just reported the file video, which was too small and hidden
\* when the detector was constructed, while the stream is still not playing
WitC27 ==
  /\ IsScanStep(out)
  /\ DetectedIn(out) = {2}
  /\ ~Qualifies(dom[1])
  /\ dom[2].videoWidth = 160

\* C28: an engine result event makes the speech session emit at most one
\* transcript event and store at most one result, whatever the length of the
\* event's result list: one for the last entry of the list when its
\* confidence passes the filter, carrying that entry's confidence and isFinal
\* flag, and none otherwise, whatever the entries before it are.
ThmC28 ==
  [][IsResultStep(out')
       => LET results == ResultsOf(out')
              emitted == Count(out', "speech", "transcript")
              after == AllStored(orch'.currentTranscripts)
              sid == IF speech.currentSession # NullSession
                     THEN speech.currentSession ELSE UnknownSession
              list == ResultsFor(orch'.currentTranscripts, sid)
          IN /\ emitted <= 1
             /\ Count(out', "orch", "transcription") = emitted
             /\ Created(orch.currentTranscripts, orch'.currentTranscripts) = emitted
             /\ emitted = 1
                  <=> /\ results # <<>>
                      /\ ConfidenceOrZero(Latest(results).confidence)
                           >= speech.confidenceThreshold
             /\ emitted = 1
                  => /\ list[Len(list)].isFinal = Latest(results).isFinal
                     /\ list[Len(list)].confidence
                          = ConfidenceOrZero(Latest(results).confidence)]_vars

\* a result event with two entries has just produced one transcript event,
\* for its last entry, an interim
WitC28 ==
  /\ IsResultStep(out)
  /\ Len(ResultsOf(out)) = 2
  /\ ResultsOf(out)[1].isFinal
  /\ ~ResultsOf(out)[2].isFinal
  /\ Count(out, "speech", "transcript") = 1
  /\ Len(AllStored(orch.currentTranscripts)) = 1

UIOwners == {"controlPanel", "uiManager"}

\* C29: the orchestrator holds one callback per event name: a registration
\* puts the new callback in the slot whatever the slot held, the control
\* panel's registration fills the three slots and the UI manager's takes them
\* over; every transcription, videoDetected and statusChange event goes to
\* the callback its slot holds and to no other, so once both have registered
\* to the UI manager's alone.
ThmC29 ==
  [][/\ IsCall(out', "ControlPanel")
          => \A e \in UIEvents : ui'.slots[e] = "controlPanel"
     /\ IsCall(out', "setupEventListeners")
          => \A e \in UIEvents : ui'.slots[e] = "uiManager"
     /\ \A e \in UIEvents :
          /\ ui'.slots[e] # ui.slots[e]
               => IsCall(out', "ControlPanel") \/ IsCall(out', "setupEventListeners")
          /\ \A o \in UIOwners :
               Count(out', o, e) =
                 (IF ui.slots[e] = o THEN Count(out', "orch", e) ELSE 0)]_vars

\* a result has just been delivered to the UI manager's callback alone, after
\* a video-detected event had gone to the control panel's callback
WitC29 ==
  /\ IsResultStep(out)
  /\ Count(out, "orch", "transcription") = 1
  /\ Count(out, "uiManager", "transcription") = 1
  /\ Count(out, "controlPanel", "transcription") = 0
  /\ ui.panel.startEnabled
  /\ ui.overlay.shown # <<>>

\* C30: stopRecognition leaves the session inactive in the same step: on an
\* active session it asks the engine to stop once and returns with the engine
\* still stopping, no end notification sent and the session id kept; the end
\* event that follows is handled though the session is already inactive: one
\* end notification carrying the session id, and the id cleared; on an
\* inactive session stopRecognition asks the engine nothing and changes no
\* state.
ThmC30 ==
  [][/\ IsCall(out', "stopRecognition") =>
          /\ ~speech'.isActive
          /\ Count(out', "speech", "end") = 0
          /\ speech'.currentSession = speech.currentSession
          /\ speech.isActive =>
               /\ Count(out', "engine", "stop") = 1
               /\ engine' = "stopping"
               /\ speech'.currentSession # NullSession
          /\ ~speech.isActive =>
               /\ Count(out', "engine", "stop") = 0
               /\ <<speech, engine, timers, orch, extractor, detector, dom, ui, script, env>>' =
                    <<speech, engine, timers, orch, extractor, detector, dom, ui, script, env>>
     /\ (Has(out', "engine", "onend") /\ speech.currentSession # NullSession) =>
          /\ Count(out', "speech", "end") = 1
          /\ HasArg(out', "speech", "end", speech.currentSession)
          /\ speech'.currentSession = NullSession
          /\ ~speech'.isActive]_vars

\* stopRecognition has just been called a second time on a session whose
\* engine is still stopping after the first call: nothing was asked of the
\* engine, the session id is still held for the end event to come
WitC30 ==
  /\ IsCall(out, "stopRecognition")
  /\ Count(out, "engine", "stop") = 0
  /\ engine = "stopping"
  /\ ~speech.isActive
  /\ speech.currentSession # NullSession
  /\ orch.stats.transcriptionSessions = 1

\* the ids of the sources whose notification `ev` the extractor emitted in q
Notified(q, ev) ==
  {q[i].arg : i \in {j \in 1..Len(q) : q[j].who = "extractor" /\ q[j].ev = ev}}

EntriesOf(map, sourceId) == {j \in 1..Len(map) : map[j].sourceId = sourceId}

\* C32 as stated: while the orchestrator is not destroyed, every stream in
\* the extractor's active set is the value of exactly one entry of the
\* video-to-source map.
CexC32 ==
  orch.listeners =>
    \A i \in 1..Len(extractor.activeStreams) :
      Cardinality(EntriesOf(orch.activeVideoSources,
                            extractor.activeStreams[i].sourceId)) = 1

\* C33 as stated, for a stop() of the running orchestrator made while
\* handleVideoDetected awaits the start of the session (the engine was asked
\* to start and has not confirmed): when the engine's start event, the
\* callback still pending, runs next, the orchestrator holds no
\* video-to-source entry, the extractor no active stream, and the speech
\* session is not active.
CexC33 ==
  [][(/\ IsCall(out, "stop")
      /\ Has(out, "orch", "statusChange")
      /\ engine = "starting"
      /\ Has(out', "engine", "onstart"))
       => /\ orch'.activeVideoSources = <<>>
          /\ extractor'.activeStreams = <<>>
          /\ ~speech'.isActive]_vars

\* a startRecognition() promise is pending: its checkSession timer is set
PollPending == \E t \in BagToSet(timers) : t.kind = "poll"

\* C34 as stated: every pending startRecognition() promise is eventually
\* settled, so that no checkSession timer is left.
CexC34 == PollPending ~> ~PollPending

\* C35 as stated: when handleVideoDetected asks for recognition for a second
\* video while the session that the first video started is still starting
\* (both in one scan, or the second in a later scan), the engine is asked to
\* start once in all, no start request throws and no error is notified.
CexC35 ==
  [][(/\ ~speech.isActive
      /\ \/ engine = "starting" /\ Count(out', "orch", "audioStarted") >= 1
         \/ engine = "idle" /\ Count(out', "orch", "audioStarted") = 2)
       => /\ Count(out', "engine", "start") = (IF engine = "idle" THEN 1 ELSE 0)
          /\ ~Has(out', "engine", "startThrows")
          /\ ~Has(out', "orch", "error")]_vars

\* C36 as stated: for every video in the detector's live set, hasAudio
\* equals metadata.hasAudioTrack.
CexC36 ==
  \A i \in 1..Len(detector.detectedVideos) :
    detector.detectedVideos[i].video.hasAudio
      = detector.detectedVideos[i].video.metadata.hasAudioTrack

\* C37 as stated: once the detector is destroyed its live set is empty and
\* no interval or observer is installed, and no step runs a scan or an
\* initialization any more.
CexC37 ==
  /\ [](~detector.listeners => detector.detectedVideos = <<>> /\ ~detector.interval)
  /\ [][~detector.listeners =>
          /\ ~Has(out', "timer", "debounce")
          /\ ~Has(out', "timer", "scan")
          /\ ~Has(out', "detector", "initialize")]_vars

\* C38 as stated: every extension instance that was created and is not the
\* current one has been destroyed, so at most one instance is live.
CexC38 ==
  \A i \in 1..Len(script.instances) :
    i # script.extension => script.instances[i] = "destroyed"

\* C39: in every state of the speech session, isActive implies that the
\* current session id is not null.
ThmC39 == speech.isActive => speech.currentSession # NullSession

\* the session is active with its id after an engine error was handled
WitC39 ==
  /\ IsErrorStep(out)
  /\ speech.isActive
  /\ speech.currentSession # NullSession
  /\ timers # EmptyBag

====
